---- MODULE Spec2Model ----
(***************************************************************************)
(* Verification model of the movie search application:                     *)
(*   app.py                          routes, connectivity probe            *)
(*   services/intent_service.py      intent detection                      *)
(*   services/dbpedia_service.py     online DBpedia queries                *)
(*   services/dbpedia_reduced_service.py   offline reduced store           *)
(*   services/ontology_service.py    local ontology store                  *)
(* Each subsystem has its own specification over the shared variables.     *)
(***************************************************************************)
EXTENDS Integers, Sequences, FiniteSets, TLC

VARIABLES
    phase,      \* position of the request / operation being modelled
    req,        \* app: inputs consumed by the last request
    resp,       \* app: response returned by the last request
    calls,      \* app: number of query calls each store received in the request
    probe,      \* app: endpoints tried by check_internet_connectivity and its result
    rows,           \* DBpediaService: titles of the binding rows the endpoint holds
    dbpedia_cache,  \* DBpediaService.dbpedia_cache: query key -> results
    tmdb_cache,     \* DBpediaService.tmdb_cache: "title:language" -> lookup result
    run,            \* per request thread: its DBpediaService call (phase, response,
                    \* lookup tasks of the fan-out, what the call returned)
    ncalls,         \* number of DBpediaService operations started
    onto,           \* OntologyService: its graph, the formats its load tried, what was populated
    found,          \* what the last OntologyService.search_movies returned
    store,          \* DBpediaReducedService: graph, processed set, data files
    job,            \* per request thread: the bulk-load call it is in, and where
    built,          \* the last semantic query built, with the filters it was built from
    eval,           \* the last evaluation of a text function, with its input
    io              \* the blocking I/O of the search request being served

vars == <<phase, req, resp, calls, probe,
          rows, dbpedia_cache, tmdb_cache, run, ncalls,
          onto, found, store, job, built, eval, io>>

loadVars == <<onto, found>>

bulkVars == <<store, job>>

buildVars == <<built>>

evalVars == <<eval>>

ioVars == <<io>>

appVars == <<req, resp, calls, probe>>

runVars == <<rows, dbpedia_cache, tmdb_cache, run, ncalls>>

----------------------------------------------------------------------------
(* Bounds of the model *)

MaxHits == 1        \* longest result list a store answers with
MaxPersons == 1     \* most persons the entity extractor returns
MaxRows == 6        \* most binding rows a remote query returns
MaxCalls == 2       \* DBpediaService operations per behaviour
MaxChunks == 2      \* most statements in an ontology file
MaxBatch == 2       \* most rows in one answer of a bulk-load query
MaxOps == 2         \* bulk-load operations after construction
MaxStr == 3         \* longest string given to a text function
MaxDate == 5        \* longest release-date string given to a normalizer
MaxRuntime == 7200  \* largest runtime value given to a normalizer
MaxNames == 3       \* longest person list given to the keyword heuristic
MaxLookups == 2     \* most title lookups of one served request
MaxOverlap == 1     \* most binding rows of a query that two request threads run at once
MaxPopRows == 2     \* most rows given to one populate_from_dbpedia call
MaxPopulate == 1    \* populate_from_dbpedia calls on one OntologyService
MaxLoops == 1       \* threads that took a loop over the popular directors

----------------------------------------------------------------------------
(* Generic helpers *)

Last(s) == s[Len(s)]

SeqsUpTo(S, n) == UNION {[1..k -> S] : k \in 0..n}

Truthy(s) == s # <<>>

First(s) == IF s # <<>> THEN s[1] ELSE "None"

----------------------------------------------------------------------------
(* app.py : check_internet_connectivity                                    *)

Endpoints == <<"httpbin.org", "google.com", "1.1.1.1">>

\* What one requests.get can do: answer 200, answer another status, raise.
Outcomes == {"ok200", "non200", "exc"}

\* The environment's answers to the endpoints in the order they are asked;
\* an endpoint is only asked when every earlier one raised.
ProbeRuns ==
    {o \in SeqsUpTo(Outcomes, Len(Endpoints)) :
        /\ Len(o) >= 1
        /\ \A i \in 1..(Len(o) - 1) : o[i] = "exc"
        /\ (Len(o) < Len(Endpoints) => Last(o) # "exc")}

check_internet_connectivity(o) ==
    IF o[1] # "exc"
    THEN [online |-> (o[1] = "ok200"), tried |-> <<1>>]
    ELSE IF o[2] # "exc"
    THEN [online |-> (o[2] = "ok200"), tried |-> <<1, 2>>]
    ELSE IF o[3] # "exc"
    THEN [online |-> TRUE, tried |-> <<1, 2, 3>>]
    ELSE [online |-> FALSE, tried |-> <<1, 2, 3>>]

----------------------------------------------------------------------------
(* services/intent_service.py : IntentService                              *)

\* One representative keyword of each keyword list; a text is modelled by the
\* set of keywords it contains (any(k in text_low for k in LIST)).
ACTOR_KEYWORDS == {"actor", "películas de"}
DIRECTOR_KEYWORDS == {"director"}
GENRE_KEYWORDS == {"genre"}
YEAR_KEYWORDS == {"year"}
STUDIO_KEYWORDS == {"studio"}

Keywords ==
    ACTOR_KEYWORDS \cup DIRECTOR_KEYWORDS \cup GENRE_KEYWORDS
        \cup YEAR_KEYWORDS \cup STUDIO_KEYWORDS

\* The test with all() in place of any().
HasAll(kws, list) == list \subseteq kws

HasAny(kws, list) == kws \cap list # {}

\* app.py builds IntentService(ner_service, tmdb_service): self.tmdb is set.
TmdbConfigured == TRUE

\* What TMDBService.get_role can do for one person.
RoleOutcomes == {"actor", "director", "none", "exc"}

detect_roles_from_tmdb(persons, ans) ==
    LET IsActor(p) == ans[p] = "actor"
        IsDirector(p) == ans[p] = "director"
    IN  IF ~TmdbConfigured
        THEN [actor |-> <<>>, director |-> <<>>]
        ELSE [actor |-> SelectSeq(persons, IsActor),
              director |-> SelectSeq(persons, IsDirector)]

\* The split that keeps every position.
AllIndexed(s) == s

EvenIndexed(s) ==
    LET n == (Len(s) + 1) \div 2 IN [i \in 1..n |-> s[2 * i - 1]]

OddIndexed(s) ==
    LET n == Len(s) \div 2 IN [i \in 1..n |-> s[2 * i]]

detect_roles_by_keywords(kws, persons) ==
    LET has_actor_keywords == HasAny(kws, ACTOR_KEYWORDS)
        has_director_keywords == HasAny(kws, DIRECTOR_KEYWORDS)
        generic_movie_patterns == {"películas de"}
    IN  IF has_actor_keywords /\ ~has_director_keywords
        THEN [actor |-> persons, director |-> <<>>]
        ELSE IF has_director_keywords /\ ~has_actor_keywords
        THEN [actor |-> <<>>, director |-> persons]
        ELSE IF has_actor_keywords /\ has_director_keywords
        THEN [actor |-> EvenIndexed(persons), director |-> OddIndexed(persons)]
        ELSE IF HasAny(kws, generic_movie_patterns)
        THEN [actor |-> persons, director |-> <<>>]
        ELSE [actor |-> <<>>, director |-> <<>>]

detect_intent(kws, ents, ans, online_mode) ==
    LET persons == ents.persons
        tmdb_roles ==
            IF online_mode /\ TmdbConfigured
            THEN detect_roles_from_tmdb(persons, ans)
            ELSE detect_roles_by_keywords(kws, persons)
        by_actor == HasAny(kws, ACTOR_KEYWORDS) \/ Truthy(tmdb_roles.actor)
        by_director == HasAny(kws, DIRECTOR_KEYWORDS) \/ Truthy(tmdb_roles.director)
    IN  [intents |->
            [movie_by_actor |-> by_actor,
             movie_by_director |-> by_director,
             movie_by_genre |-> HasAny(kws, GENRE_KEYWORDS) \/ Truthy(ents.genres),
             movie_by_year |-> HasAny(kws, YEAR_KEYWORDS) \/ Truthy(ents.years),
             movie_by_person |-> Truthy(persons) /\ ~(by_actor \/ by_director),
             movie_by_studio |-> HasAny(kws, STUDIO_KEYWORDS) \/ Truthy(ents.orgs)],
         persons |-> persons,
         roles |-> tmdb_roles,
         years |-> ents.years,
         genres |-> ents.genres,
         studios |-> ents.orgs]

\* The test taken as passed whatever the flags are.
IntentAssumed(intents) == TRUE

AnyIntent(intents) == \E k \in DOMAIN intents : intents[k]

----------------------------------------------------------------------------
(* services/dbpedia_service.py : DBpediaService                            *)
(* search_movies, search_movies_semantic, _run_sparql, _fetch_tmdb          *)

MaxWorkers == 5     \* ThreadPoolExecutor(max_workers=5)

None == "<None>"    \* a title binding that is missing: b.get("title", {}).get("value")

\* f"{title}": the text Python puts for a title; the missing title gives the
\* four letters None.
Format(title) == IF title = None THEN "None" ELSE title

\* The title of the film numbered i.
TitleOf(i) == "T" \o ToString(i)

Language == "es"

TheQuery == "Q"

\* Titles of the n rows: all distinct, or two titles alternating, or all
\* distinct with a first film whose title is the word None; the row at index
\* missing (if any) has no title binding.
RowsOf(n, pattern, missing) ==
    [i \in 1..n |->
        IF i = missing THEN None
        ELSE IF pattern = "alternating" THEN TitleOf(((i - 1) % 2) + 1)
        ELSE IF pattern = "none_titled" /\ i = 1 THEN "None"
        ELSE TitleOf(i)]

RowPatterns == {"distinct", "alternating", "none_titled"}

RowSets ==
    UNION {{RowsOf(n, p, m) : p \in RowPatterns, m \in {0, 1, n}} : n \in 0..MaxRows}

\* What requests.get / SPARQLWrapper can do on one remote call.
Failures == {"timeout", "connection_error"}

HttpOutcomes ==
    [kind : Failures]
        \cup [kind : {"response"}, status : {200, 500},
              content_type : {"application/sparql-results+json", "text/html"},
              body : {"bindings", "malformed"}]

NoHttp == [kind |-> "none"]

\* except Exception (dbpedia_service.py:176, 388, 508) catches every failure.
Caught(exc) == TRUE

_generate_cache_key(query) == <<"md5", query>>

\* if cache_key in self.dbpedia_cache. NeverCached is the lookup that never
\* finds the key.
NeverCached(cache, cache_key) == FALSE

InCache(cache, cache_key) == cache_key \in DOMAIN cache

\* cache_key = f"{title}:{language}"
CacheKey(title, language) == Format(title) \o ":" \o language

\* TMDBService.search_movie_by_title: {} when nothing is found or the call
\* fails, else the first match for the queried title (the titles here hold no
\* parenthesis or outer blank for re.sub and strip to remove).
Empty == [found |-> FALSE]

TmdbLookups(title) == {Empty, [found |-> TRUE, query |-> title]}

NoTasks == <<>>

Queued == [st |-> "queued"]

Running(t) == {i \in DOMAIN t : t[i].st = "fetching"}

\* The workers busy when lookup i is started: those inside a lookup, and
\* those that took an earlier lookup off the queue and have not started it
\* (the queue is first in first out; a worker that took a lookup may be
\* overtaken before it marks the future as running).
Busy(t, i) ==
    Cardinality(Running(t)) + Cardinality({j \in 1..(i - 1) : t[j].st = "queued"})

\* executor.map: the result list is indexed like the input list.
tmdb_results(t) == [i \in DOMAIN t |-> t[i].res]

\* One record of _run_sparql (the fields the lookup decides).
BuildRecord(title, tmdb_data) ==
    LET titulo_dbp == IF title = None THEN "Título no disponible" ELSE title
    IN  [titulo_dbp |-> titulo_dbp,
         tmdb |-> tmdb_data,
         titulo |-> IF tmdb_data.found THEN "tmdb:" \o tmdb_data.query ELSE titulo_dbp,
         tipo |-> "external"]

BuildResults(rs, t) ==
    LET res == tmdb_results(t)
    IN  [i \in DOMAIN rs |-> BuildRecord(rs[i], res[i])]

\* The services before anything is asked of them.
NotLoaded == [constructed |-> FALSE]

NotAsked == [asked |-> FALSE]

NoStore == [constructed |-> FALSE]

NotBuilt == [store |-> "none"]

LoadIdle == onto = NotLoaded /\ found = NotAsked

\* The request threads that call the reduced store (the server is threaded).
BulkThreads == {"T1", "T2"}

\* A thread outside every bulk-load call.
NoJob ==
    [pc |-> "idle", op |-> "none", at |-> "none", d |-> 0, n |-> 0, current |-> 0,
     total |-> 0, rows |-> <<>>, own |-> FALSE, mine |-> {},
     asked |-> [n |-> 0, failed |-> 0, films |-> {}], before |-> {}, final |-> 0,
     added |-> 0]

BulkIdle == store = NoStore /\ job = [t \in BulkThreads |-> NoJob]

BuildIdle == built = NotBuilt

NotEvaluated == [fn |-> "none"]

EvalIdle == eval = NotEvaluated

NoPending == <<>>

NotServing == [pc |-> "idle"]

IoIdle == io = NotServing

\* The request threads that call DBpediaService (the server is threaded).
RunThreads == {"A", "B"}

\* A thread outside every call, before its first.
NoRun ==
    [phase |-> "idle", task |-> NoTasks, http |-> NoHttp,
     ret |-> [value |-> <<>>, raised |-> FALSE, op |-> "none"]]

RunIdle ==
    /\ rows = <<>>
    /\ dbpedia_cache = <<>>
    /\ tmdb_cache = <<>>
    /\ run = [t \in RunThreads |-> NoRun]
    /\ ncalls = 0

\* The server hands a request to a thread that is idle; the threads are
\* alike, so it is the first idle one in the order A, B.  Two calls at once
\* are followed for answers of up to MaxOverlap rows.
Serves(t) ==
    /\ run[t].phase = "idle"
    /\ t = "B" => (run["A"].phase # "idle" /\ Len(rows) <= MaxOverlap)

\* Thread t of r returns value from op.
Return(r, t, op, value) ==
    run' = [r EXCEPT ![t].phase = "idle",
                     ![t].ret = [value |-> value, raised |-> FALSE, op |-> op],
                     ![t].task = NoTasks]

Propagate(r, t, op, exc) ==
    run' = [r EXCEPT ![t].phase = "idle",
                     ![t].ret = [value |-> <<>>, raised |-> TRUE, op |-> op],
                     ![t].task = NoTasks]

\* An exception inside a try block: caught, the method returns [].
Fail(r, t, op, exc) ==
    IF Caught(exc) THEN Return(r, t, op, <<>>) ELSE Propagate(r, t, op, exc)

\* The threads, t with the response h of its request.
Got(t, h) == [run EXCEPT ![t].http = h]

\* search_movies_semantic -> _run_sparql up to its wait: the cached answer
\* is returned, or the request is sent.
RunSparql ==
    /\ ncalls < MaxCalls
    /\ ncalls' = ncalls + 1
    /\ \E t \in RunThreads :
          /\ Serves(t)
          /\ LET cache_key == _generate_cache_key(TheQuery)
                 starts == [run EXCEPT ![t] = NoRun]
             IN  IF InCache(dbpedia_cache, cache_key)
                 THEN Return(starts, t, "_run_sparql", dbpedia_cache[cache_key])
                 ELSE run' = [starts EXCEPT ![t].phase = "requesting"]
    /\ UNCHANGED <<phase, rows, dbpedia_cache, tmdb_cache, appVars, loadVars, bulkVars, buildVars, evalVars, ioVars>>

\* requests.get of a waiting thread returns or raises; _run_sparql goes on to
\* the start of the fan-out, or returns.
GetReturns ==
    /\ \E t \in RunThreads, h \in HttpOutcomes :
          /\ run[t].phase = "requesting"
          /\ IF h.kind \in Failures
             THEN Fail(Got(t, h), t, "_run_sparql", h.kind) /\ UNCHANGED dbpedia_cache
             ELSE IF h.content_type # "application/sparql-results+json"
             THEN Return(Got(t, h), t, "_run_sparql", <<>>) /\ UNCHANGED dbpedia_cache
             ELSE IF h.body = "malformed"
             THEN Fail(Got(t, h), t, "_run_sparql", "json_error")
                  /\ UNCHANGED dbpedia_cache
             ELSE IF rows = <<>>
             THEN /\ Return(Got(t, h), t, "_run_sparql", <<>>)
                  /\ dbpedia_cache' =
                        (_generate_cache_key(TheQuery) :> <<>>) @@ dbpedia_cache
             ELSE /\ run' = [Got(t, h) EXCEPT
                                ![t].phase = "fanout",
                                ![t].task = [i \in DOMAIN rows |-> Queued]]
                  /\ UNCHANGED dbpedia_cache
    /\ UNCHANGED <<phase, rows, tmdb_cache, ncalls, appVars, loadVars, bulkVars, buildVars, evalVars, ioVars>>

\* A pool worker starts a lookup it took off the queue and runs _fetch_tmdb up
\* to the external call: cache hit, or missing title (re.sub raises), or call
\* started.
WorkerBegin ==
    /\ \E t \in RunThreads :
          /\ run[t].phase \in {"fanout", "unwinding"}
          /\ \E i \in DOMAIN run[t].task :
                LET task == run[t].task
                    cache_key == CacheKey(rows[i], Language)
                IN  /\ task[i].st = "queued"
                    /\ Busy(task, i) < MaxWorkers
                    /\ run' = [run EXCEPT ![t].task[i] =
                                  IF InCache(tmdb_cache, cache_key)
                                  THEN [st |-> "done", res |-> tmdb_cache[cache_key]]
                                  ELSE IF rows[i] = None
                                  THEN [st |-> "raised"]
                                  ELSE [st |-> "fetching"]]
    /\ UNCHANGED <<phase, rows, dbpedia_cache, tmdb_cache, ncalls, appVars, loadVars, bulkVars, buildVars, evalVars, ioVars>>

\* The external call of a worker returns; _fetch_tmdb stores and returns it.
WorkerEnd ==
    /\ \E t \in RunThreads :
          /\ run[t].phase \in {"fanout", "unwinding"}
          /\ \E i \in DOMAIN run[t].task :
                /\ run[t].task[i].st = "fetching"
                /\ \E data \in TmdbLookups(rows[i]) :
                      /\ run' = [run EXCEPT ![t].task[i] = [st |-> "done", res |-> data]]
                      /\ tmdb_cache' = (CacheKey(rows[i], Language) :> data) @@ tmdb_cache
    /\ UNCHANGED <<phase, rows, dbpedia_cache, ncalls, appVars, loadVars, bulkVars, buildVars, evalVars, ioVars>>

\* list(executor.map(...)) got every result: build the records, cache, return.
JoinAll ==
    /\ \E t \in RunThreads :
          /\ run[t].phase = "fanout"
          /\ \A i \in DOMAIN run[t].task : run[t].task[i].st = "done"
          /\ LET results == BuildResults(rows, run[t].task)
             IN  /\ dbpedia_cache' =
                       (_generate_cache_key(TheQuery) :> results) @@ dbpedia_cache
                 /\ Return(run, t, "_run_sparql", results)
    /\ UNCHANGED <<phase, rows, tmdb_cache, ncalls, appVars, loadVars, bulkVars, buildVars, evalVars, ioVars>>

\* list(executor.map(...)) reaches a task that raised: the futures still
\* pending are cancelled and the pool is shut down, waiting for the running
\* ones.
JoinRaise ==
    /\ \E t \in RunThreads :
          /\ run[t].phase = "fanout"
          /\ \E m \in DOMAIN run[t].task :
                /\ run[t].task[m].st = "raised"
                /\ \A j \in 1..(m - 1) : run[t].task[j].st = "done"
          /\ run' = [run EXCEPT
                ![t].phase = "unwinding",
                ![t].task = [i \in DOMAIN @ |->
                               IF @[i].st = "queued" THEN [st |-> "cancelled"] ELSE @[i]]]
    /\ UNCHANGED <<phase, rows, dbpedia_cache, tmdb_cache, ncalls, appVars, loadVars, bulkVars, buildVars, evalVars, ioVars>>

\* The pool has shut down; the exception reaches except Exception: return [].
Unwound ==
    /\ \E t \in RunThreads :
          /\ run[t].phase = "unwinding"
          /\ Running(run[t].task) = {}
          /\ Fail(run, t, "_run_sparql", "TypeError")
    /\ UNCHANGED <<phase, rows, dbpedia_cache, tmdb_cache, ncalls, appVars, loadVars, bulkVars, buildVars, evalVars, ioVars>>

\* One record of search_movies; binding["titulo"] raises KeyError when the
\* row has no title.
MovieOf(title) == [titulo |-> title, tipo |-> "external"]

\* search_movies(term, language) up to its wait in sparql.query(): the query
\* is sent; no cache is read.
SearchMovies ==
    /\ ncalls < MaxCalls
    /\ ncalls' = ncalls + 1
    /\ \E t \in RunThreads :
          /\ Serves(t)
          /\ run' = [run EXCEPT ![t] = [NoRun EXCEPT !.phase = "querying"]]
    /\ UNCHANGED <<phase, rows, dbpedia_cache, tmdb_cache, appVars, loadVars, bulkVars, buildVars, evalVars, ioVars>>

\* sparql.query().convert() of a waiting thread returns or raises: the
\* normalizer loop runs inside the same try, and search_movies returns; it
\* writes no cache.
ConvertReturns ==
    /\ \E t \in RunThreads, h \in HttpOutcomes :
          /\ run[t].phase = "querying"
          /\ IF h.kind \in Failures
             THEN Fail(Got(t, h), t, "search_movies", h.kind)
             ELSE IF h.status # 200
             THEN Fail(Got(t, h), t, "search_movies", "HTTPError")
             ELSE IF h.content_type # "application/sparql-results+json"
             THEN Fail(Got(t, h), t, "search_movies", "TypeError")
             ELSE IF h.body = "malformed"
             THEN Fail(Got(t, h), t, "search_movies", "json_error")
             ELSE IF \E i \in DOMAIN rows : rows[i] = None
             THEN Fail(Got(t, h), t, "search_movies", "KeyError")
             ELSE Return(Got(t, h), t, "search_movies",
                         [i \in DOMAIN rows |-> MovieOf(rows[i])])
    /\ UNCHANGED <<phase, rows, dbpedia_cache, tmdb_cache, ncalls, appVars, loadVars, bulkVars, buildVars, evalVars, ioVars>>

InitRun ==
    /\ phase = "idle"
    /\ req = [route |-> "none", fn |-> "none"]
    /\ resp = [status |-> 0]
    /\ calls = [local |-> 0, external |-> 0, reduced |-> 0]
    /\ probe = [outcomes |-> <<>>, tried |-> <<>>, online |-> FALSE]
    /\ rows \in RowSets
    /\ dbpedia_cache = <<>>
    /\ tmdb_cache = <<>>
    /\ run = [t \in RunThreads |-> NoRun]
    /\ ncalls = 0
    /\ LoadIdle /\ BulkIdle /\ BuildIdle /\ EvalIdle /\ IoIdle

NextRun ==
    SearchMovies \/ ConvertReturns \/ RunSparql \/ GetReturns \/ WorkerBegin
        \/ WorkerEnd \/ JoinAll \/ JoinRaise \/ Unwound

SpecRun == InitRun /\ [][NextRun]_vars

----------------------------------------------------------------------------
(* app.py : search_auto, api_search, semantic_search, api_connectivity      *)

\* Methods the class OntologyService defines (ontology_service.py).
OntologyServiceMethods ==
    {"_load_ontology", "search_movies", "get_movie_details", "get_stats",
     "get_debug_info", "_analyze_graph_content", "populate_from_dbpedia"}

\* Result lists a store can answer a query with.
Answers == SeqsUpTo({"movie"}, MaxHits)

PersonNames == <<"P1", "P2", "P3">>

NoEntities == [persons |-> <<>>, years |-> <<>>, genres |-> <<>>, orgs |-> <<>>]

\* Outputs of the entity extractor (NERService.extract_all).
Entities ==
    {[persons |-> SubSeq(PersonNames, 1, n), years |-> y, genres |-> g, orgs |-> o] :
        n \in 0..MaxPersons,
        y \in {<<>>, <<"1999">>}, g \in {<<>>, <<"terror">>},
        o \in {<<>>, <<"Pixar">>}}

\* Keyword contents of the sampled request texts: no keyword, or one.
KeywordSets == {{}} \cup {{k} : k \in Keywords}

\* A request: the stripped text, the keywords it contains, the extractor output.
Queries ==
    {[text |-> "", kws |-> {}, ner |-> NoEntities]}
        \cup {[text |-> "q", kws |-> k, ner |-> e] : k \in KeywordSets, e \in Entities}

Range(s) == {s[i] : i \in DOMAIN s}

RoleAnswers(persons) == [Range(persons) -> RoleOutcomes]

NoCalls == [local |-> 0, external |-> 0, reduced |-> 0]

NoProbe == [outcomes |-> <<>>, tried |-> <<>>, online |-> FALSE]

ProbeOf(o) ==
    LET r == check_internet_connectivity(o)
    IN  [outcomes |-> o, tried |-> r.tried, online |-> r.online]

\* api_search with a blended merge: the local store is queried in online mode too.
api_search_blended(q, o, la, ea, ra) ==
    IF q.text = ""
    THEN [resp |-> [status |-> 400, error |-> "Termino de busqueda requerido"],
          calls |-> NoCalls, probe |-> NoProbe]
    ELSE LET is_online == check_internet_connectivity(o).online
             local_results == la
             external_results == IF is_online THEN ea ELSE <<>>
             reduced_results == IF is_online THEN <<>> ELSE ra
         IN  [resp |->
                 [status |-> 200,
                  local |-> local_results,
                  external |-> external_results,
                  reduced |-> reduced_results,
                  total |-> Len(local_results) + Len(external_results)
                                + Len(reduced_results),
                  online_mode |-> is_online],
              calls |->
                 IF is_online
                 THEN [local |-> 1, external |-> 1, reduced |-> 0]
                 ELSE [local |-> 1, external |-> 0, reduced |-> 1],
              probe |-> ProbeOf(o)]

\* api_search(term, language): the response, the store calls and the probe run.
\* la, ea, ra: what the local, external and reduced store answer when queried.
api_search(q, o, la, ea, ra) ==
    IF q.text = ""
    THEN [resp |-> [status |-> 400, error |-> "Termino de busqueda requerido"],
          calls |-> NoCalls, probe |-> NoProbe]
    ELSE LET is_online == check_internet_connectivity(o).online
             local_results == IF is_online THEN <<>> ELSE la
             external_results == IF is_online THEN ea ELSE <<>>
             reduced_results == IF is_online THEN <<>> ELSE ra
         IN  [resp |->
                 [status |-> 200,
                  local |-> local_results,
                  external |-> external_results,
                  reduced |-> reduced_results,
                  total |-> Len(local_results) + Len(external_results)
                                + Len(reduced_results),
                  online_mode |-> is_online],
              calls |->
                 IF is_online
                 THEN [local |-> 0, external |-> 1, reduced |-> 0]
                 ELSE [local |-> 1, external |-> 0, reduced |-> 1],
              probe |-> ProbeOf(o)]

\* semantic_search(query, language); ans: the role lookups of its detect_intent.
semantic_search(q, ans, o, la, ea, ra) ==
    IF q.text = ""
    THEN [resp |-> [status |-> 400, error |-> "Se requiere parametro ?q"],
          calls |-> NoCalls, probe |-> NoProbe]
    ELSE LET intent_data == detect_intent(q.kws, q.ner, ans, TRUE)
             intents == intent_data.intents
             actor == First(intent_data.roles.actor)
             director == First(intent_data.roles.director)
             year == First(intent_data.years)
             genre == First(intent_data.genres)
             studio == First(intent_data.studios)
             is_online == check_internet_connectivity(o).online
         IN  IF ~AnyIntent(intents)
             THEN [resp |->
                      [status |-> 400,
                       error |-> "No se pudo entender la intencion de la consulta",
                       debug |-> [persons |-> intent_data.persons,
                                  roles |-> intent_data.roles,
                                  years |-> intent_data.years,
                                  genres |-> intent_data.genres,
                                  studios |-> intent_data.studios,
                                  intent_detected |-> intents]],
                   calls |-> NoCalls, probe |-> NoProbe]
             ELSE IF is_online
             THEN [resp |->
                      [status |-> 200,
                       intents_detected |-> intents,
                       actor |-> actor, director |-> director,
                       year |-> year, genre |-> genre,
                       local |-> <<>>, external |-> ea, reduced |-> <<>>,
                       total |-> 0 + Len(ea) + 0,
                       online_mode |-> is_online],
                   calls |-> [local |-> 0, external |-> 1, reduced |-> 0],
                   probe |-> ProbeOf(o)]
             ELSE IF "search_movies_semantic" \notin OntologyServiceMethods
             THEN \* AttributeError at app.py:276, caught at app.py:309
                  [resp |-> [status |-> 500, error |-> "AttributeError"],
                   calls |-> NoCalls, probe |-> ProbeOf(o)]
             ELSE [resp |->
                      [status |-> 200,
                       intents_detected |-> intents,
                       actor |-> actor, director |-> director,
                       year |-> year, genre |-> genre,
                       local |-> la, external |-> <<>>, reduced |-> ra,
                       total |-> Len(la) + 0 + Len(ra),
                       online_mode |-> is_online],
                   calls |-> [local |-> 1, external |-> 0, reduced |-> 1],
                   probe |-> ProbeOf(o)]

\* The inputs a handler consumed, as kept in req.
Consumed(route, fn, q, ans1, ans2, out, la, ea, ra) ==
    [route |-> route, fn |-> fn, query |-> q, roles1 |-> ans1, roles2 |-> ans2,
     local |-> IF out.calls.local > 0 THEN la ELSE <<>>,
     external |-> IF out.calls.external > 0 THEN ea ELSE <<>>,
     reduced |-> IF out.calls.reduced > 0 THEN ra ELSE <<>>]

Finish(r, out) ==
    /\ phase' = "done"
    /\ req' = r
    /\ resp' = out.resp
    /\ calls' = out.calls
    /\ probe' = out.probe
    /\ UNCHANGED <<runVars, loadVars, bulkVars, buildVars, evalVars, ioVars>>

\* Answers drawn only for a store the handler queries.
AnswersIf(asked) == IF asked THEN Answers ELSE {<<>>}

\* Route /api/search_auto
SearchAuto ==
    /\ phase = "idle"
    /\ \E q \in Queries : \E ans1 \in RoleAnswers(q.ner.persons) :
          IF q.text = ""
          THEN Finish(Consumed("search_auto", "none", q, ans1, ans1, [calls |-> NoCalls],
                               <<>>, <<>>, <<>>),
                      [resp |-> [status |-> 400, error |-> "Se requiere parametro ?q"],
                       calls |-> NoCalls, probe |-> NoProbe])
          ELSE \E o \in ProbeRuns :
               LET online == check_internet_connectivity(o).online
               IN  \E la \in AnswersIf(~online), ea \in AnswersIf(online),
                      ra \in AnswersIf(~online) :
                   IF AnyIntent(detect_intent(q.kws, q.ner, ans1, TRUE).intents)
                   THEN \E ans2 \in RoleAnswers(q.ner.persons) :
                        LET out == semantic_search(q, ans2, o, la, ea, ra)
                        IN  Finish(Consumed("search_auto", "semantic_search", q, ans1,
                                            ans2, out, la, ea, ra), out)
                   ELSE LET out == api_search(q, o, la, ea, ra)
                        IN  Finish(Consumed("search_auto", "api_search", q, ans1, ans1,
                                            out, la, ea, ra), out)

\* Route /api/connectivity
ApiConnectivity ==
    /\ phase = "idle"
    /\ \E o \in ProbeRuns :
          LET p == ProbeOf(o)
          IN  Finish([route |-> "connectivity", fn |-> "none"],
                     [resp |-> [status |-> 200, online |-> p.online,
                                statusText |-> IF p.online THEN "connected" ELSE "offline"],
                      calls |-> NoCalls, probe |-> p])

AppIdle ==
    /\ phase = "idle"
    /\ req = [route |-> "none", fn |-> "none"]
    /\ resp = [status |-> 0]
    /\ calls = NoCalls
    /\ probe = NoProbe

InitApp ==
    /\ phase = "idle"
    /\ req = [route |-> "none", fn |-> "none"]
    /\ resp = [status |-> 0]
    /\ calls = NoCalls
    /\ probe = NoProbe
    /\ RunIdle
    /\ LoadIdle /\ BulkIdle /\ BuildIdle /\ EvalIdle /\ IoIdle

NextApp == SearchAuto \/ ApiConnectivity

SpecApp == InitApp /\ [][NextApp]_vars

----------------------------------------------------------------------------
(* OntologyService (src/services/ontology_service.py)                       *)

\* formats_to_try
formats_to_try == <<"xml", "turtle", "n3", "nt">>

Formats == Range(formats_to_try)

\* What a statement of the file is written in, and the parsers that read it.
\* An N-Triples line is also Turtle and N3; a Turtle statement is also N3.
Accepts(syntax) ==
    CASE syntax = "rdfxml"   -> {"xml"}
      [] syntax = "ntriples" -> {"turtle", "n3", "nt"}
      [] syntax = "turtle"   -> {"turtle", "n3"}
      [] syntax = "garbage"  -> {}

Syntaxes == {"rdfxml", "ntriples", "turtle", "garbage"}

\* The triples a statement states.
TitleTriple == [s |-> "m1", p |-> "nombrePelicula", o |-> "Matrix"]

YearTriple == [s |-> "m1", p |-> "anioEstreno", o |-> "1999"]

Triples == {TitleTriple, YearTriple}

Chunks == [syntax : Syntaxes, triple : Triples]

\* An ontology file: its statements, and the format its extension suggests.
OntologyFiles == [chunks : SeqsUpTo(Chunks, MaxChunks), guess : Formats]

\* Number of leading statements the parser of fmt reads before it fails.
RECURSIVE ReadPrefix(_, _, _)
ReadPrefix(chunks, fmt, i) ==
    IF i > Len(chunks) \/ fmt \notin Accepts(chunks[i].syntax)
    THEN i - 1
    ELSE ReadPrefix(chunks, fmt, i + 1)

\* Graph.parse(file, format=fmt): statements are added to the graph as they
\* are read; a failure leaves the ones read so far.  An empty document is not
\* well-formed XML.
GraphParse(g, file, fmt) ==
    LET k == ReadPrefix(file.chunks, fmt, 1)
    IN  [graph |-> g \cup {file.chunks[i].triple : i \in 1..k},
         ok |-> k = Len(file.chunks) /\ (fmt = "xml" => file.chunks # <<>>)]

\* The for loop of _load_ontology from format number i on, then the parse
\* without a format.
RECURSIVE TryFormats(_, _, _, _)
TryFormats(g, file, i, tried) ==
    IF i > Len(formats_to_try)
    THEN LET r == GraphParse(g, file, file.guess)
         IN  [graph |-> r.graph, tried |-> Append(tried, "auto"),
              loaded_by |-> IF r.ok THEN "auto" ELSE "none"]
    ELSE LET r == GraphParse(g, file, formats_to_try[i])
         IN  IF r.ok
             THEN [graph |-> r.graph, tried |-> Append(tried, formats_to_try[i]),
                   loaded_by |-> formats_to_try[i]]
             ELSE TryFormats(r.graph, file, i + 1, Append(tried, formats_to_try[i]))

_load_ontology(file) == TryFormats({}, file, 1, <<>>)

\* No file written by populate_from_dbpedia.
NotSaved == [written |-> FALSE, graph |-> {}]

Terms == {"matrix", "alien"}

Lower(title) ==
    IF title = "Matrix" THEN "matrix"
    ELSE IF title = "Alien" THEN "alien"
    ELSE title

\* if term.lower() in title.lower()
TermIn(term, title) == term = Lower(title)

\* One record per nombrePelicula triple whose title holds the term.
LocalMovies(g, term) ==
    {[titulo |-> t.o, uri |-> t.s, tipo |-> "local",
      anio |-> IF \E y \in g : y.s = t.s /\ y.p = "anioEstreno"
               THEN "1999" ELSE "No disponible"] :
        t \in {x \in g : x.p = "nombrePelicula" /\ TermIn(term, x.o)}}

\* search_movies(term): [] on an empty graph, else the scan of the triples.
local_search_movies(g, term) == IF g = {} THEN {} ELSE LocalMovies(g, term)

\* OntologyService(ontology_file): __init__ runs _load_ontology, which catches
\* every exception.
NewOntologyService ==
    /\ ~onto.constructed
    /\ \E file \in OntologyFiles :
          LET r == _load_ontology(file)
          IN  onto' = [constructed |-> TRUE, graph |-> r.graph,
                       tried |-> r.tried, loaded_by |-> r.loaded_by, raised |-> FALSE,
                       populated |-> 0, inserted |-> 0, saved |-> NotSaved]
    /\ UNCHANGED <<found, phase, appVars, runVars, bulkVars, buildVars, evalVars, ioVars>>

LocalSearch ==
    /\ onto.constructed
    /\ \E term \in Terms :
          found' = [asked |-> TRUE, term |-> term,
                    movies |-> local_search_movies(onto.graph, term)]
    /\ UNCHANGED <<onto, phase, appVars, runVars, bulkVars, buildVars, evalVars, ioVars>>

\* A key the row does not have.
NoKey == "<absent>"

\* Rows given to populate_from_dbpedia: dicts with or without "rdfs:label"
\* and "dbo:releaseDate", and no relation keys.
PopRows == [label : {"Matrix", "Alien", NoKey}, date : {"1999-03-31", NoKey}]

\* movie_title = dbp_movie.get("rdfs:label", "PeliculaDesconocida"); the URI
\* is the title with blanks replaced (the titles here have none).
MovieUri(row) == IF row.label = NoKey THEN "PeliculaDesconocida" ELSE row.label

\* The triples one row adds: the type, then one per mapped property present.
RowTriples(row) ==
    {[s |-> MovieUri(row), p |-> "type", o |-> "Pelicula"]}
        \cup (IF row.label = NoKey THEN {}
              ELSE {[s |-> MovieUri(row), p |-> "nombrePelicula", o |-> row.label]})
        \cup (IF row.date = NoKey THEN {}
              ELSE {[s |-> MovieUri(row), p |-> "fechaEstreno", o |-> row.date]})

\* populate_from_dbpedia(dbpedia_rows, save_to): adds the triples of every
\* row to self.graph, serializes the graph when save_to is given, and returns
\* the number of rows.
populate_from_dbpedia(o, dbpedia_rows, save_to) ==
    LET g == o.graph \cup UNION {RowTriples(dbpedia_rows[i]) : i \in DOMAIN dbpedia_rows}
    IN  [o EXCEPT !.graph = g,
                  !.populated = @ + 1,
                  !.inserted = Len(dbpedia_rows),
                  !.saved = IF save_to THEN [written |-> TRUE, graph |-> g] ELSE @]

PopulateFromDbpedia ==
    /\ onto.constructed
    /\ onto.populated < MaxPopulate
    /\ \E dbpedia_rows \in SeqsUpTo(PopRows, MaxPopRows), save_to \in BOOLEAN :
          onto' = populate_from_dbpedia(onto, dbpedia_rows, save_to)
    /\ UNCHANGED <<found, phase, appVars, runVars, bulkVars, buildVars, evalVars, ioVars>>

InitLoad == AppIdle /\ RunIdle /\ LoadIdle /\ BulkIdle /\ BuildIdle /\ EvalIdle /\ IoIdle

NextLoad == NewOntologyService \/ LocalSearch \/ PopulateFromDbpedia

SpecLoad == InitLoad /\ [][NextLoad]_vars

----------------------------------------------------------------------------
(* DBpediaReducedService bulk loading (src/services/dbpedia_reduced_service.py) *)

Movies == {"dbr:A", "dbr:B"}

\* One row of an endpoint's answer: a film URI, or a row without "movie".
NoMovieKey == "no movie key"

Bindings == Movies \cup {NoMovieKey}

\* sparql.query().convert(): an exception, or the rows of the answer.
QueryFails == [fails |-> TRUE]

EndpointAnswers ==
    {QueryFails} \cup [fails : {FALSE}, bindings : SeqsUpTo(Bindings, MaxBatch)]

\* The data and metadata files: absent, or a saved set of films that is
\* stale or fresh and does or does not parse as Turtle.
NoFiles == [exists |-> FALSE]

Disks ==
    {NoFiles} \cup [exists : {TRUE}, films : SUBSET Movies,
                    stale : BOOLEAN, parses : BOOLEAN]

NoneIngested == [m \in Movies |-> 0]

\* The films an answer of an endpoint holds.
FilmsOf(answer) ==
    IF answer.fails THEN {}
    ELSE {answer.bindings[i] : i \in DOMAIN answer.bindings} \ {NoMovieKey}

\* What an operation met at the endpoints it asked: how many it asked, how
\* many of them failed, the films the others returned.
Met(answers) ==
    [n |-> Len(answers),
     failed |-> Cardinality({i \in DOMAIN answers : answers[i].fails}),
     films |-> UNION {FilmsOf(answers[i]) : i \in DOMAIN answers}]

\* The for loop over the bindings: st is the service, acc the movies_count.
RECURSIVE IngestFrom(_, _, _, _)
IngestFrom(st, bindings, i, acc) ==
    IF i > Len(bindings)
    THEN [st |-> st, count |-> acc]
    ELSE LET b == bindings[i]
         IN  IF b = NoMovieKey \/ b \in st.processed
             THEN IngestFrom(st, bindings, i + 1, acc)
             ELSE IngestFrom([st EXCEPT !.processed = @ \cup {b},
                                        !.graph = @ \cup {b},
                                        !.ingested[b] = @ + 1],
                             bindings, i + 1, acc + 1)

\* _execute_simple_query run by the constructor, with no other thread:
\* getattr(self, '_processed_movies', set()), the loop, then
\* self._processed_movies = processed_movies; 0 when the query fails.
_execute_simple_query(st, answer) ==
    IF answer.fails
    THEN [st |-> st, count |-> 0]
    ELSE LET r == IngestFrom(st, answer.bindings, 1, 0)
         IN  [st |-> [r.st EXCEPT !.has_processed = TRUE], count |-> r.count]

\* _save_data(movie_count): the graph and the metadata go to the files.
_save_data(st, movie_count) ==
    [st EXCEPT !.disk = [exists |-> TRUE, films |-> st.graph,
                         stale |-> FALSE, parses |-> TRUE],
               !.movie_count = movie_count]

\* _download_movie_data: a new Graph, then 'en' and 'es', then the save.
_download_movie_data(st, en, es) ==
    LET cleared == [st EXCEPT !.graph = {}]
        r1 == _execute_simple_query(cleared, en)
        r2 == _execute_simple_query(r1.st, es)
    IN  _save_data(r2.st, r1.count + r2.count)

get_movie_count(st) == Cardinality(st.graph)

additional_movies == 1000

\* _download_from_endpoint(language, 1000)
download_limit == 1000

\* LIMIT in the query: the endpoint cuts the rows it holds to the limit.
Limited(answer, limit) ==
    IF answer.fails THEN answer
    ELSE [answer EXCEPT
            !.bindings = SubSeq(@, 1, IF limit < Len(@) THEN limit ELSE Len(@))]

\* api_reduced_expand brings the requested number into 100..5000.
Clamp(requested) ==
    IF requested > 5000 THEN 5000
    ELSE IF requested < 100 THEN 100
    ELSE requested

\* The numbers a request to /api/reduced/expand asks for: none (the default
\* of data.get), one below the range and one above it.
Requested == {additional_movies, 1, 6000}

\* _needs_update: the metadata file is missing or unreadable, or its
\* last_update is older than the update interval.
_needs_update(disk) == ~disk.exists \/ disk.stale

\* __init__ up to _load_or_initialize: an empty graph, no _processed_movies.
Fresh(disk) ==
    [constructed |-> TRUE, graph |-> {}, processed |-> {}, has_processed |-> FALSE,
     ingested |-> NoneIngested, disk |-> disk, movie_count |-> 0, nops |-> 0,
     asked |-> Met(<<>>), before |-> {}]

\* _load_or_initialize
_load_or_initialize(disk, en, es) ==
    IF disk.exists
    THEN IF disk.parses
         THEN LET loaded == [Fresh(disk) EXCEPT !.graph = disk.films]
              IN  IF disk.stale
                  THEN _download_movie_data(loaded, en, es)
                  ELSE loaded
         ELSE _download_movie_data(Fresh(disk), en, es)
    ELSE _download_movie_data(Fresh(disk), en, es)

\* Answers are drawn only when the download asks the endpoints.
Downloads(disk) == ~(disk.exists /\ disk.parses /\ ~disk.stale)

\* The service after __init__, with what its start-up met: the films loaded
\* from the data file and the endpoint answers of its download, if any.
Started(disk, asked, en, es) ==
    [_load_or_initialize(disk, en, es) EXCEPT
        !.asked = Met(asked),
        !.before = IF disk.exists /\ disk.parses THEN disk.films ELSE {}]

\* dbpedia_reduced_service = DBpediaReducedService() runs when app.py is
\* imported, before a request thread exists.
NewReducedService ==
    /\ ~store.constructed
    /\ IF Downloads(store.disk)
       THEN \E en, es \in EndpointAnswers :
               store' = Started(store.disk, <<en, es>>, en, es)
       ELSE store' = Started(store.disk, <<>>, QueryFails, QueryFails)
    /\ UNCHANGED <<job, phase, appVars, runVars, loadVars, buildVars, evalVars, ioVars>>

\* A thread may enter a call when it is in none.
Free(t) == job[t].pc \in {"idle", "done"}

\* The server hands a request to a thread that is free; the threads are
\* alike, so it is the first free one in the order T1, T2.
Takes(t) == Free(t) /\ (t = "T2" => ~Free("T1"))

\* The thread's record as it enters op with the store as it is and sends its
\* first query; a refresh also keeps the films the graph held.
Began(op, n) ==
    [NoJob EXCEPT !.pc = "query", !.op = op, !.n = n,
                  !.at = IF op = "_download_with_query" THEN "category" ELSE "en",
                  !.current = get_movie_count(store),
                  !.before = IF op = "force_update" THEN store.graph ELSE {}]

\* The store as a call finds it: one more call, and the record of what the
\* start-up met is dropped.
Entered(st) == [st EXCEPT !.nops = @ + 1, !.asked = Met(<<>>), !.before = {}]

\* What a refresh has met, with one more answer.
Meeting(asked, answer) ==
    [n |-> asked.n + 1,
     failed |-> asked.failed + (IF answer.fails THEN 1 ELSE 0),
     films |-> asked.films \cup FilmsOf(answer)]

\* force_update -> _download_movie_data up to its first wait: self.graph is
\* replaced by a new Graph and the 'en' query is sent.
ForceUpdate ==
    /\ store.constructed /\ store.nops < MaxOps
    /\ \E t \in BulkThreads :
          /\ Takes(t)
          /\ job' = [job EXCEPT ![t] = Began("force_update", download_limit)]
    /\ store' = [Entered(store) EXCEPT !.graph = {}]
    /\ UNCHANGED <<phase, appVars, runVars, loadVars, buildVars, evalVars, ioVars>>

\* expand_database(n) up to its first wait, for n of the given numbers:
\* current_movies is read and the 'en' query is sent.
Expand(sizes) ==
    /\ store.constructed /\ store.nops < MaxOps
    /\ \E t \in BulkThreads, n \in sizes :
          /\ Takes(t)
          /\ job' = [job EXCEPT ![t] = Began("expand_database", n)]
    /\ store' = Entered(store)
    /\ UNCHANGED <<phase, appVars, runVars, loadVars, buildVars, evalVars, ioVars>>

\* api_reduced_expand: the requested number is brought into the range and
\* expand_database is called with it on the service of the server.
ExpandDatabase == Expand({Clamp(requested) : requested \in Requested})

\* _download_with_query / _download_by_genre / _download_director_movies up
\* to the wait: the one query of the call is sent.
DownloadWithQuery ==
    /\ store.constructed /\ store.nops < MaxOps
    /\ \E t \in BulkThreads :
          /\ Takes(t)
          /\ job' = [job EXCEPT ![t] = Began("_download_with_query", download_limit)]
    /\ store' = Entered(store)
    /\ UNCHANGED <<phase, appVars, runVars, loadVars, buildVars, evalVars, ioVars>>

\* _download_popular_directors_movies: the list of directors.
directors ==
    <<"Steven Spielberg", "Martin Scorsese", "Christopher Nolan",
      "Quentin Tarantino", "Alfred Hitchcock", "Stanley Kubrick",
      "Francis Ford Coppola", "Ridley Scott", "James Cameron",
      "Tim Burton", "David Fincher", "Denis Villeneuve",
      "Alejandro González Iñárritu", "Alfonso Cuarón", "Guillermo del Toro">>

\* movies_per_director = min(50, limit // len(directors))
movies_per_director(limit) ==
    IF limit \div Len(directors) < 50 THEN limit \div Len(directors) ELSE 50

\* The limits the loop is called with: one that ends it before the first
\* director, and the least that asks for a film of each.
DirectorLimits == {0, Len(directors)}

\* The threads whose last call is the loop over the directors.
Looping == {u \in BulkThreads : job[u].op = "_download_popular_directors_movies"}

\* _download_popular_directors_movies(language, limit) up to its first wait:
\* the loop ends at once when total_count >= limit, else the query of the
\* first director is sent.
DownloadPopularDirectorsMovies ==
    /\ store.constructed /\ store.nops < MaxOps
    /\ Cardinality(Looping) < MaxLoops
    /\ \E t \in BulkThreads, limit \in DirectorLimits :
          /\ Takes(t)
          /\ job' = [job EXCEPT ![t] =
                        [Began("_download_popular_directors_movies", limit) EXCEPT
                            !.pc = IF 0 >= limit THEN "done" ELSE "query",
                            !.d = IF 0 >= limit THEN 0 ELSE 1]]
    /\ store' = Entered(store)
    /\ UNCHANGED <<phase, appVars, runVars, loadVars, buildVars, evalVars, ioVars>>

\* LIMIT of the query a call has pending.
LimitOf(j) ==
    IF j.op = "expand_database"
    THEN (IF j.at = "en" THEN j.n \div 2 ELSE j.n - j.total)
    ELSE IF j.op = "_download_popular_directors_movies"
    THEN movies_per_director(j.n)
    ELSE download_limit

\* Where a call goes when the ingest of an answer is over: to its sleep, or
\* (_download_with_query has none) to its return.
Rests(j) == IF j.op = "_download_with_query" THEN "done" ELSE "sleep"

\* sparql.query().convert() of a waiting thread returns or raises.  On an
\* exception the method returns 0.  Else the thread holds the rows and
\* processed_movies = getattr(self, '_processed_movies', set()): the set of
\* the service, or a new set of its own when the service has none yet.
QueryReturns ==
    \E t \in BulkThreads, answer \in EndpointAnswers :
       /\ job[t].pc = "query"
       /\ LET j == job[t]
              results == Limited(answer, LimitOf(j))
              met == [j EXCEPT !.asked = IF j.op = "force_update"
                                         THEN Meeting(@, answer) ELSE @]
          IN  job' = [job EXCEPT ![t] =
                         IF answer.fails
                         THEN [met EXCEPT !.pc = Rests(j)]
                         ELSE [met EXCEPT !.pc = "loop",
                                          !.rows = results.bindings,
                                          !.own = ~store.has_processed]]
       /\ UNCHANGED <<store, phase, appVars, runVars, loadVars, buildVars, evalVars, ioVars>>

\* processed_movies as thread t holds it.
Seen(t) == IF job[t].own THEN job[t].mine ELSE store.processed

\* self._processed_movies = processed_movies after the loop: the set thread t
\* holds becomes the set of the service.  A thread that holds the set the
\* service had until now goes on with that set, now its own.
Stored(t) ==
    /\ store' = [store EXCEPT !.processed = Seen(t), !.has_processed = TRUE]
    /\ job' = [u \in BulkThreads |->
                 IF u = t
                 THEN [job[t] EXCEPT !.pc = Rests(job[t]), !.own = FALSE, !.mine = {}]
                 ELSE IF job[t].own /\ ~job[u].own /\ job[u].pc \in {"loop", "add", "film"}
                 THEN [job[u] EXCEPT !.own = TRUE, !.mine = store.processed]
                 ELSE job[u]]

\* The head of the for loop over the bindings: the loop is over, or the next
\* row has no "movie" (KeyError, logged) or is in processed_movies (continue),
\* or it passed the test `str(movie_uri) in processed_movies`.
LoopStep ==
    \E t \in BulkThreads :
       /\ job[t].pc = "loop"
       /\ IF job[t].rows = <<>>
          THEN Stored(t)
          ELSE LET b == Head(job[t].rows)
               IN  /\ job' = [job EXCEPT ![t] =
                                 IF b = NoMovieKey \/ b \in Seen(t)
                                 THEN [@ EXCEPT !.rows = Tail(@)]
                                 ELSE [@ EXCEPT !.pc = "add"]]
                   /\ UNCHANGED store
       /\ UNCHANGED <<phase, appVars, runVars, loadVars, buildVars, evalVars, ioVars>>

\* processed_movies.add(str(movie_uri)), by a thread whose row passed the
\* test.
AddProcessed ==
    \E t \in BulkThreads :
       /\ job[t].pc = "add"
       /\ LET b == Head(job[t].rows)
          IN  IF job[t].own
              THEN /\ job' = [job EXCEPT ![t].mine = @ \cup {b}, ![t].pc = "film"]
                   /\ UNCHANGED store
              ELSE /\ job' = [job EXCEPT ![t].pc = "film"]
                   /\ store' = [store EXCEPT !.processed = @ \cup {b}]
       /\ UNCHANGED <<phase, appVars, runVars, loadVars, buildVars, evalVars, ioVars>>

\* self.graph.add((movie_uri, RDF.type, self.dbo.Film)) and the triples of
\* the row, movies_count += 1, and on to the next row.
AddFilm ==
    \E t \in BulkThreads :
       /\ job[t].pc = "film"
       /\ LET b == Head(job[t].rows)
          IN  /\ store' = [store EXCEPT !.graph = @ \cup {b}, !.ingested[b] = @ + 1]
              /\ job' = [job EXCEPT ![t].total = @ + 1, ![t].rows = Tail(@),
                                    ![t].pc = "loop"]
       /\ UNCHANGED <<phase, appVars, runVars, loadVars, buildVars, evalVars, ioVars>>

\* The call has another query to send after this sleep.
AsksAgain(j) ==
    CASE j.op = "force_update" -> j.at = "en"
      [] j.op = "expand_database" -> j.at = "en" /\ j.total < j.n
      [] j.op = "_download_popular_directors_movies" ->
            j.d < Len(directors) /\ j.total < j.n
      [] OTHER -> FALSE

\* After the last sleep of a call: force_update saves with the number it
\* counted; expand_database reads final_movie_count = get_movie_count() and
\* has the save still to do; the loop over the directors returns its total.
Finished(t) ==
    LET j == job[t]
        final_movie_count == get_movie_count(store)
    IN  IF j.op = "force_update"
        THEN /\ store' = _save_data(store, j.total)
             /\ job' = [job EXCEPT ![t].pc = "done"]
        ELSE IF j.op = "expand_database"
        THEN /\ job' = [job EXCEPT ![t].pc = "save",
                                   ![t].final = final_movie_count]
             /\ UNCHANGED store
        ELSE /\ job' = [job EXCEPT ![t].pc = "done"]
             /\ UNCHANGED store

\* time.sleep of a thread ends: the next query is sent, or the call ends.
SleepEnds ==
    \E t \in BulkThreads :
       /\ job[t].pc = "sleep"
       /\ IF AsksAgain(job[t])
          THEN /\ job' = [job EXCEPT
                            ![t].pc = "query",
                            ![t].at = IF job[t].d = 0 THEN "es" ELSE @,
                            ![t].d = IF @ = 0 THEN 0 ELSE @ + 1]
               /\ UNCHANGED store
          ELSE Finished(t)
       /\ UNCHANGED <<phase, appVars, runVars, loadVars, buildVars, evalVars, ioVars>>

\* The end of expand_database: _save_data(final_movie_count) writes the graph
\* as it is now with the count read before, and the call returns
\* final_movie_count - current_movies.
SaveExpanded ==
    \E t \in BulkThreads :
       /\ job[t].pc = "save"
       /\ store' = _save_data(store, job[t].final)
       /\ job' = [job EXCEPT ![t].pc = "done",
                             ![t].added = job[t].final - job[t].current]
       /\ UNCHANGED <<phase, appVars, runVars, loadVars, buildVars, evalVars, ioVars>>

InitBulk ==
    /\ AppIdle /\ RunIdle /\ LoadIdle /\ BuildIdle /\ EvalIdle /\ IoIdle
    /\ store \in [constructed : {FALSE}, disk : Disks]
    /\ job = [t \in BulkThreads |-> NoJob]

NextBulk ==
    NewReducedService \/ ForceUpdate \/ ExpandDatabase \/ DownloadWithQuery
        \/ QueryReturns \/ LoopStep \/ AddProcessed \/ AddFilm \/ SleepEnds
        \/ SaveExpanded

SpecBulk == InitBulk /\ [][NextBulk]_vars

\* The store under the loop over the popular directors and the single
\* queries.
InitDirectors == InitBulk

NextDirectors ==
    NewReducedService \/ DownloadPopularDirectorsMovies \/ DownloadWithQuery
        \/ QueryReturns \/ LoopStep \/ AddProcessed \/ AddFilm \/ SleepEnds

SpecDirectors == InitDirectors /\ [][NextDirectors]_vars

----------------------------------------------------------------------------
(* Semantic query builders (dbpedia_service.py, dbpedia_reduced_service.py) *)

\* Python's None among the filter values.
PyNone == None

FilterValues == {PyNone, "", "Tom", "a\"b"}

FilterNames == {"actor", "director", "year", "genre", "studio"}

\* 'it' has no endpoint and no genre property of its own.
Languages == {"es", "en", "fr", "de", "it"}

\* if actor: / if director: ... a None or an empty string is falsy.
TruthyStr(v) == v # PyNone /\ v # ""

\* The same test without the truthiness.
AlwaysTruthy(v) == v = v

Present(v) == TruthyStr(v)

\* value.replace('"', '\\"')
Escape(v) == IF v = "a\"b" THEN "a\\\"b" ELSE v

\* value.replace('"', '')
Strip(v) == IF v = "a\"b" THEN "ab" ELSE v

\* One line of the filter block: the text of the source's string with its
\* placeholders, the values put in their place, the variables it constrains.
Clause(text, variables, value, language) ==
    [text |-> text, vars |-> variables, value |-> value, language |-> language]

ActorClauses(actor, language) ==
    << IF language = "en"
       THEN Clause("?actor rdfs:label \"{actor_safe}\"@en .",
                   {"?actor"}, Escape(actor), "en")
       ELSE Clause("?actor rdfs:label \"{actor_safe}\"@{language} .",
                   {"?actor"}, Escape(actor), language),
       Clause("?film ?pActor ?actor .", {"?film", "?pActor", "?actor"}, "", ""),
       Clause("FILTER(?pActor IN (dbo:starring, dbo:castMember, dbp:starring, dbo:actor))",
              {"?pActor"}, "", "") >>

DirectorClauses(director, language) ==
    << IF language = "en"
       THEN Clause("?dir rdfs:label \"{director_safe}\"@en .",
                   {"?dir"}, Escape(director), "en")
       ELSE Clause("?dir rdfs:label \"{director_safe}\"@{language} .",
                   {"?dir"}, Escape(director), language),
       Clause("?film ?pDirector ?dir .", {"?film", "?pDirector", "?dir"}, "", ""),
       Clause("FILTER(?pDirector IN (dbo:director, dbp:director, dbo:cinematography))",
              {"?pDirector"}, "", "") >>

YearClauses(year) ==
    << Clause("?film dbo:releaseDate ?rd .", {"?film", "?rd"}, "", ""),
       Clause("FILTER( STRSTARTS(STR(?rd), \"{year}\") )", {"?rd"}, year, "") >>

genre_property_by_lang ==
    [en |-> "dbo:genre", es |-> "prop-es:género",
     fr |-> "prop-fr:genre", de |-> "prop-de:genre"]

GenreRegex(genre) ==
    Clause("FILTER(regex(lcase(str(?genero)), lcase(\"{genre_safe}\"), \"i\"))",
           {"?genero"}, Escape(genre), "")

GenreClauses(genre, language) ==
    IF language \in DOMAIN genre_property_by_lang
    THEN << Clause("?film {genre_prop} ?genreURI .", {"?film", "?genreURI"},
                   genre_property_by_lang[language], ""),
            IF language = "en"
            THEN Clause("?genreURI rdfs:label ?genero .", {"?genreURI", "?genero"}, "", "")
            ELSE Clause("BIND(?genreURI AS ?genero)", {"?genreURI", "?genero"}, "", ""),
            IF language = "en"
            THEN Clause("FILTER(lang(?genero) = \"en\")", {"?genero"}, "", "en")
            ELSE Clause("FILTER(lang(?genero) = \"{language}\" || lang(?genero) = \"\" )",
                        {"?genero"}, "", language),
            GenreRegex(genre) >>
    ELSE << Clause("?film dbo:genre ?genreURI .", {"?film", "?genreURI"}, "", ""),
            Clause("?genreURI rdfs:label ?genero .", {"?genreURI", "?genero"}, "", ""),
            Clause("FILTER(lang(?genero) = \"{language}\")", {"?genero"}, "", language),
            GenreRegex(genre) >>

StudioClauses(studio, language) ==
    << IF language = "en"
       THEN Clause("?studio rdfs:label \"{studio_safe}\"@en .",
                   {"?studio"}, Escape(studio), "en")
       ELSE Clause("?studio rdfs:label \"{studio_safe}\"@{language} .",
                   {"?studio"}, Escape(studio), language),
       Clause("?film ?pStudio ?studio .", {"?film", "?pStudio", "?studio"}, "", ""),
       Clause("FILTER(?pStudio IN (dbp:company, dbo:distributor))",
              {"?pStudio"}, "", "") >>

\* DBpediaService.search_movies_semantic: the filters list.
OnlineFilters(a, language) ==
    (IF Present(a.actor) THEN ActorClauses(a.actor, language) ELSE <<>>)
    \o (IF Present(a.director) THEN DirectorClauses(a.director, language) ELSE <<>>)
    \o (IF Present(a.year) THEN YearClauses(a.year) ELSE <<>>)
    \o (IF Present(a.genre) THEN GenreClauses(a.genre, language) ELSE <<>>)
    \o (IF Present(a.studio) THEN StudioClauses(a.studio, language) ELSE <<>>)

\* DBpediaReducedService.search_movies_semantic: the filters list.  The actor
\* branch is a pass.
ReducedFilters(a) ==
    (IF Present(a.actor) THEN <<>> ELSE <<>>)
    \o (IF Present(a.director)
        THEN <<Clause("FILTER regex(?directorName, \"{director}\", \"i\")",
                      {"?directorName"}, Strip(a.director), "")>>
        ELSE <<>>)
    \o (IF Present(a.year)
        THEN <<Clause("FILTER regex(str(?releaseDate), \"{year}\", \"i\")",
                      {"?releaseDate"}, a.year, "")>>
        ELSE <<>>)
    \o (IF Present(a.genre)
        THEN <<Clause("FILTER regex(?genreName, \"{genre}\", \"i\")",
                      {"?genreName"}, Strip(a.genre), "")>>
        ELSE <<>>)

\* The PREFIX block of the query of search_movies_semantic.
DeclaredPrefixes == {"dbo", "dbp", "rdfs", "prop-es", "prop-fr", "prop-en"}

\* The prefixes of the names in the fixed part of its WHERE block.
BodyPrefixes == {"rdf", "dbo", "rdfs", "dbp", "prop-es"}

\* The prefix of a prefixed name.
PrefixOfName(name) ==
    CASE name = "dbo:genre" -> "dbo"
      [] name = "prop-es:género" -> "prop-es"
      [] name = "prop-fr:genre" -> "prop-fr"
      [] name = "prop-de:genre" -> "prop-de"

\* The prefixes of the names in one line of the filter block.
ClausePrefixes(c) ==
    CASE c.text = "?film {genre_prop} ?genreURI ." -> {PrefixOfName(c.value)}
      [] c.text \in {"?actor rdfs:label \"{actor_safe}\"@en .",
                     "?actor rdfs:label \"{actor_safe}\"@{language} .",
                     "?dir rdfs:label \"{director_safe}\"@en .",
                     "?dir rdfs:label \"{director_safe}\"@{language} .",
                     "?studio rdfs:label \"{studio_safe}\"@en .",
                     "?studio rdfs:label \"{studio_safe}\"@{language} .",
                     "?genreURI rdfs:label ?genero ."} -> {"rdfs"}
      [] c.text \in {"FILTER(?pActor IN (dbo:starring, dbo:castMember, dbp:starring, dbo:actor))",
                     "FILTER(?pDirector IN (dbo:director, dbp:director, dbo:cinematography))",
                     "FILTER(?pStudio IN (dbp:company, dbo:distributor))"} -> {"dbo", "dbp"}
      [] c.text \in {"?film dbo:releaseDate ?rd .", "?film dbo:genre ?genreURI ."} -> {"dbo"}
      [] OTHER -> {}

\* Every prefix the emitted query uses.
UsedPrefixes(filters) ==
    BodyPrefixes \cup UNION {ClausePrefixes(filters[i]) : i \in DOMAIN filters}

\* The labels a person of the endpoint may carry.
LabelTags == {"es", "en", "fr", "de"}

PersonLabels(value) == SUBSET [value : {value}, tag : LabelTags]

\* '?actor rdfs:label "{actor_safe}"@{language} .' is a triple pattern: it
\* binds ?actor to the persons that have exactly this tagged literal as label.
LabelMatches(clause, label) ==
    clause.value = Escape(label.value) /\ clause.language = label.tag

FilterArgs == [FilterNames -> FilterValues]

\* semantic_search passes actor, director, year and genre to the reduced store.
ReducedArgs == {a \in FilterArgs : a.studio = PyNone}

\* The builders keep no state between calls: one call per behaviour covers
\* every call.
BuildOnline ==
    /\ built = NotBuilt
    /\ \E a \in FilterArgs, language \in Languages :
          built' = [store |-> "online", args |-> a, language |-> language,
                    executed |-> TRUE, filters |-> OnlineFilters(a, language)]
    /\ UNCHANGED <<phase, appVars, runVars, loadVars, bulkVars, evalVars, ioVars>>

\* len(self.graph) == 0 returns [] before any query is built.
BuildReduced ==
    /\ built = NotBuilt
    /\ \E a \in ReducedArgs, graph_empty \in BOOLEAN :
          built' = [store |-> "reduced", args |-> a, language |-> "",
                    executed |-> ~graph_empty,
                    filters |-> IF graph_empty THEN <<>> ELSE ReducedFilters(a)]
    /\ UNCHANGED <<phase, appVars, runVars, loadVars, bulkVars, evalVars, ioVars>>

InitBuilder == AppIdle /\ RunIdle /\ LoadIdle /\ BulkIdle /\ BuildIdle /\ EvalIdle /\ IoIdle

NextBuilder == BuildOnline \/ BuildReduced

SpecBuilder == InitBuilder /\ [][NextBuilder]_vars

----------------------------------------------------------------------------
(* Text functions of the query builders and the normalizers                 *)
(* Strings are sequences of characters.                                     *)

Strings(alphabet) == SeqsUpTo(alphabet, MaxStr)

\* y == d[:len(y)]
IsPrefix(y, d) == Len(y) <= Len(d) /\ SubSeq(d, 1, Len(y)) = y

\* y in d
Occurs(y, d) ==
    \E i \in 0..(Len(d) - Len(y)) : SubSeq(d, i + 1, i + Len(y)) = y

DateChars == {"1", "9", "-"}

YearChars == {"1", "9"}

\* FILTER( STRSTARTS(STR(?rd), "{year}") )
STRSTARTS(date, year) == IsPrefix(year, date)

\* FILTER regex(str(?releaseDate), "{year}", "i"): an unanchored pattern of
\* digits matches wherever the digits occur.
regex(date, year) == Occurs(year, date)

YearFilterPasses(kind, date, year) ==
    IF kind = "online" THEN STRSTARTS(date, year) ELSE regex(date, year)

\* The text functions keep no state: one evaluation per behaviour covers all.
EvalYearFilter ==
    /\ eval = NotEvaluated
    /\ \E kind \in {"online", "reduced"}, date \in Strings(DateChars),
          year \in Strings(YearChars) \ {<<>>} :
          eval' = [fn |-> "year_filter", store |-> kind, date |-> date, year |-> year,
                   passes |-> YearFilterPasses(kind, date, year)]
    /\ UNCHANGED <<phase, appVars, runVars, loadVars, bulkVars, buildVars, ioVars>>

DQ == "\""

BS == "\\"

QuoteChars == {"a", DQ, BS}

\* value.replace('"', by)
RECURSIVE ReplaceQuote(_, _)
ReplaceQuote(value, by) ==
    IF value = <<>>
    THEN <<>>
    ELSE (IF Head(value) = DQ THEN by ELSE <<Head(value)>>)
             \o ReplaceQuote(Tail(value), by)

\* The builders that put a value between the quotes of a template, and what
\* each does to the value first.
LiteralBuilders ==
    {"search_movies", "search_directors", "search_movies_semantic",
     "search_movies_semantic year", "search_people_from_movie",
     "reduced search_movies", "reduced search_movies_semantic",
     "reduced search_movies_semantic year"}

Safe(builder, value) ==
    CASE builder \in {"search_movies", "search_directors"} ->
            ReplaceQuote(value, <<BS, BS, DQ>>)
      [] builder \in {"search_movies_semantic", "search_people_from_movie"} ->
            ReplaceQuote(value, <<BS, DQ>>)
      [] builder \in {"reduced search_movies", "reduced search_movies_semantic"} ->
            ReplaceQuote(value, <<>>)
      [] OTHER -> value

\* The text from after the opening quote of the template to its closing quote.
EmittedLiteral(builder, value) == Safe(builder, value) \o <<DQ>>

\* The builders that add the clause of a filter under `if actor:`,
\* `if director:`, `if year:`, `if genre:`, `if studio:`.
GuardedBuilders ==
    {"search_movies_semantic", "search_movies_semantic year",
     "reduced search_movies_semantic", "reduced search_movies_semantic year"}

\* The builder puts the value into the query: always for a search term, and
\* for a filter when the value is not the empty string.
EmitsClause(builder, value) == builder \in GuardedBuilders => value # <<>>

NoClause == <<>>

EvalLiteral ==
    /\ eval = NotEvaluated
    /\ \E builder \in LiteralBuilders, value \in Strings(QuoteChars) :
          eval' = [fn |-> "literal", builder |-> builder, value |-> value,
                   emits |-> EmitsClause(builder, value),
                   emitted |-> IF EmitsClause(builder, value)
                               THEN EmittedLiteral(builder, value) ELSE NoClause]
    /\ UNCHANGED <<phase, appVars, runVars, loadVars, bulkVars, buildVars, ioVars>>

ReleaseDateChars == {"1", "-", "T"}

ReleaseDates == SeqsUpTo(ReleaseDateChars, MaxDate)

\* "No disponible", as a string of its own.
NoDisponible == <<"No disponible">>

Has(ch, str) == \E i \in DOMAIN str : str[i] = ch

\* release_date.split("-")[0]
RECURSIVE SplitDash0(_)
SplitDash0(str) ==
    IF str = <<>> \/ Head(str) = "-" THEN <<>>
    ELSE <<Head(str)>> \o SplitDash0(Tail(str))

\* release_date[:4]
First4(str) == SubSeq(str, 1, IF Len(str) < 4 THEN Len(str) ELSE 4)

Normalizers ==
    {"search_movies", "_run_sparql", "reduced search_movies",
     "reduced search_movies_semantic"}

\* The year of a record, as each normalizer computes it from the date string
\* ("" when the row has no date).
YearOf(normalizer, release_date) ==
    IF release_date = <<>> THEN NoDisponible
    ELSE CASE normalizer = "search_movies" ->
                 IF Has("-", release_date) THEN SplitDash0(release_date)
                 ELSE release_date
           [] normalizer = "_run_sparql" -> SplitDash0(release_date)
           [] normalizer = "reduced search_movies" ->
                 IF Has("T", release_date) THEN SplitDash0(release_date)
                 ELSE IF Has("-", release_date) THEN SplitDash0(release_date)
                 ELSE IF Len(release_date) >= 4 THEN First4(release_date)
                 ELSE release_date
           [] normalizer = "reduced search_movies_semantic" ->
                 IF Has("-", release_date) THEN SplitDash0(release_date)
                 ELSE First4(release_date)

EvalYear ==
    /\ eval = NotEvaluated
    /\ \E normalizer \in Normalizers, release_date \in ReleaseDates :
          eval' = [fn |-> "year", normalizer |-> normalizer, date |-> release_date,
                   year |-> YearOf(normalizer, release_date), raised |-> FALSE]
    /\ UNCHANGED <<phase, appVars, runVars, loadVars, bulkVars, buildVars, ioVars>>

\* The runtime of a row: no value, a number n, or a text that is no number.
Runtimes ==
    {[kind |-> "absent", n |-> 0], [kind |-> "text", n |-> 0]}
        \cup [kind : {"number"}, n : 0..MaxRuntime]

\* The test that guards the conversion.  The online normalizers test the
\* binding's string, which is empty only when the variable is unbound; the
\* reduced store tests the stored literal, and a numeric literal is true
\* only when its value is not zero.
RuntimeIsTrue(normalizer, runtime) ==
    CASE runtime.kind = "absent" -> FALSE
      [] runtime.kind = "text" -> TRUE
      [] runtime.kind = "number" ->
            IF normalizer \in {"search_movies", "_run_sparql"} THEN TRUE
            ELSE runtime.n # 0

Minutes(n) == [shown |-> "min", n |-> n]

NoDuration == [shown |-> "No disponible", n |-> 0]

\* int(float(runtime)), then the seconds rule; a text that is no number
\* raises inside the try and leaves the placeholder.
DurationOf(normalizer, runtime) ==
    IF ~RuntimeIsTrue(normalizer, runtime) THEN NoDuration
    ELSE IF runtime.kind = "text" THEN NoDuration
    ELSE IF runtime.n > 1000 THEN Minutes(runtime.n \div 60)
    ELSE Minutes(runtime.n)

EvalDuration ==
    /\ eval = NotEvaluated
    /\ \E normalizer \in Normalizers, runtime \in Runtimes :
          eval' = [fn |-> "duration", normalizer |-> normalizer,
                   runtime |-> runtime,
                   duration |-> DurationOf(normalizer, runtime),
                   raised |-> FALSE]
    /\ UNCHANGED <<phase, appVars, runVars, loadVars, bulkVars, buildVars, ioVars>>

\* detect_intent on a text: its keywords, the extractor's output, the role
\* lookups' answers and the online_mode argument.
EvalIntent ==
    /\ eval = NotEvaluated
    /\ \E q \in Queries : \E ans \in RoleAnswers(q.ner.persons) :
       \E online_mode \in BOOLEAN :
          /\ q.text # ""
          /\ eval' = [fn |-> "detect_intent", kws |-> q.kws, ner |-> q.ner,
                      answers |-> ans, online_mode |-> online_mode,
                      out |-> detect_intent(q.kws, q.ner, ans, online_mode)]
    /\ UNCHANGED <<phase, appVars, runVars, loadVars, bulkVars, buildVars, ioVars>>

\* _detect_roles_by_keywords on a text holding the keywords kws and a list of
\* extracted persons (a name may occur twice).
EvalRoles ==
    /\ eval = NotEvaluated
    /\ \E kws \in SUBSET Keywords, persons \in SeqsUpTo({"P1", "P2"}, MaxNames) :
          eval' = [fn |-> "roles", kws |-> kws, persons |-> persons,
                   roles |-> detect_roles_by_keywords(kws, persons)]
    /\ UNCHANGED <<phase, appVars, runVars, loadVars, bulkVars, buildVars, ioVars>>

InitText == AppIdle /\ RunIdle /\ LoadIdle /\ BulkIdle /\ BuildIdle /\ EvalIdle /\ IoIdle

NextText ==
    EvalYearFilter \/ EvalLiteral \/ EvalYear \/ EvalDuration \/ EvalIntent
        \/ EvalRoles

SpecText == InitText /\ [][NextText]_vars

----------------------------------------------------------------------------
(* The blocking I/O of one search_auto request (SpecServe)                  *)

\* requests.get without a timeout argument waits without limit.
NoTimeout == 0

\* timeout= of the three probe requests, in order.
ProbeTimeouts == <<8, 6, 5>>

\* The call a stage makes next.
CallOf(s) ==
    CASE s.pc = "detect" -> [kind |-> "search_person", timeout |-> NoTimeout]
      [] s.pc = "probe" -> [kind |-> "probe", timeout |-> ProbeTimeouts[s.tried + 1]]
      [] s.pc = "query" -> [kind |-> "sparql", timeout |-> 10]
      [] s.pc = "lookup" -> [kind |-> "search_movie_by_title", timeout |-> 10]

\* What the remote side can answer to a call.
Answered == {"ok200", "non200", "error"}

\* search_auto receives a non-empty text: detect_intent starts, with one
\* role lookup per extracted person.
Receive ==
    /\ io = NotServing
    /\ \E persons \in 0..MaxPersons, other \in BOOLEAN :
          io' = [pc |-> "detect", handler |-> "search_auto", persons |-> persons,
                 other |-> other, left |-> persons, tried |-> 0, online |-> FALSE,
                 lookups |-> 0, pending |-> NoPending, log |-> <<>>]
    /\ UNCHANGED <<phase, appVars, runVars, loadVars, bulkVars, buildVars, evalVars>>

\* Calls a stage may have pending at once: the title lookups run in
\* ThreadPoolExecutor(max_workers=5), every other stage calls in sequence.
Width(s) == IF s.pc = "lookup" THEN MaxWorkers ELSE 1

\* The stage makes its next blocking call.
Issue ==
    /\ io.pc \in {"detect", "probe", "query", "lookup"}
    /\ Len(io.pending) < Width(io)
    /\ io.left > 0
    /\ io' = [io EXCEPT !.pending = Append(@, CallOf(io)), !.left = @ - 1]
    /\ UNCHANGED <<phase, appVars, runVars, loadVars, bulkVars, buildVars, evalVars>>

\* s without its element number k.
Without(s, k) == SubSeq(s, 1, k - 1) \o SubSeq(s, k + 1, Len(s))

\* The pending call number k returns or raises with the given outcome.
Complete(k, outcome, rows_found) ==
    LET logged == Append(io.log, [kind |-> io.pending[k].kind, outcome |-> outcome])
        rest == Without(io.pending, k)
    IN  io' =
          CASE io.pc = "probe" ->
                 IF outcome \in {"ok200", "non200"}
                 THEN [io EXCEPT !.pending = rest, !.log = logged, !.left = 0,
                                 !.online = (outcome = "ok200" \/ io.tried = 2)]
                 ELSE [io EXCEPT !.pending = rest, !.log = logged,
                                 !.tried = io.tried + 1]
            [] io.pc = "query" ->
                 [io EXCEPT !.pending = rest, !.log = logged, !.left = 0,
                            !.lookups = IF outcome \in {"ok200", "non200"}
                                           /\ io.handler = "semantic_search"
                                        THEN rows_found ELSE 0]
            [] OTHER ->
                 [io EXCEPT !.pending = rest, !.log = logged]

\* The remote side answers a pending call.
Respond ==
    /\ io.pc # "idle"
    /\ \E k \in DOMAIN io.pending, outcome \in Answered, rows_found \in 0..MaxLookups :
          /\ (io.pc # "query" => rows_found = 0)
          /\ Complete(k, outcome, rows_found)
    /\ UNCHANGED <<phase, appVars, runVars, loadVars, bulkVars, buildVars, evalVars>>

\* The timeout of a pending call expires.
TimeOut ==
    /\ io.pc # "idle"
    /\ \E k \in DOMAIN io.pending :
          /\ io.pending[k].timeout # NoTimeout
          /\ Complete(k, "timeout", 0)
    /\ UNCHANGED <<phase, appVars, runVars, loadVars, bulkVars, buildVars, evalVars>>

\* A stage has made all its calls and all have returned: the request moves on.
Advance ==
    /\ io.pc \in {"detect", "probe", "query", "lookup"}
    /\ io.pending = NoPending
    /\ io.left = 0
    /\ io' =
          CASE io.pc = "detect" /\ io.handler = "search_auto" ->
                 IF io.persons > 0 \/ io.other
                 THEN [io EXCEPT !.handler = "semantic_search", !.left = io.persons]
                 ELSE [io EXCEPT !.handler = "api_search", !.pc = "probe",
                                 !.left = Len(ProbeTimeouts)]
            [] io.pc = "detect" /\ io.handler = "semantic_search" ->
                 [io EXCEPT !.pc = "probe", !.left = Len(ProbeTimeouts)]
            [] io.pc = "probe" ->
                 IF io.online THEN [io EXCEPT !.pc = "query", !.left = 1]
                 ELSE [io EXCEPT !.pc = "done"]
            [] io.pc = "query" ->
                 IF io.lookups > 0
                 THEN [io EXCEPT !.pc = "lookup", !.left = io.lookups]
                 ELSE [io EXCEPT !.pc = "done"]
            [] io.pc = "lookup" -> [io EXCEPT !.pc = "done"]
    /\ UNCHANGED <<phase, appVars, runVars, loadVars, bulkVars, buildVars, evalVars>>

InitServe == AppIdle /\ RunIdle /\ LoadIdle /\ BulkIdle /\ BuildIdle /\ EvalIdle /\ IoIdle

NextServe == Receive \/ Issue \/ Respond \/ TimeOut \/ Advance

\* The handler's own steps are taken; a timeout that was set expires unless
\* the call returned before.  Nothing makes the network answer.
SpecServe ==
    /\ InitServe /\ [][NextServe]_vars
    /\ WF_vars(Issue) /\ WF_vars(TimeOut) /\ WF_vars(Advance)

----------------------------------------------------------------------------
(* Claims about the adaptive mode and the connectivity probe (SpecApp)      *)

SearchDone == phase = "done" /\ req.route = "search_auto"

ProbeRan == phase = "done" /\ probe.tried # <<>>

\* C1: in api_search and in semantic_search, whenever the connectivity probe
\* returned false, the local store and the reduced store were both queried and
\* the external DBpedia service received no call during the request.
C1_OfflineQueriesLocalAndReduced ==
    (SearchDone /\ req.fn \in {"api_search", "semantic_search"}
        /\ probe.tried # <<>> /\ ~probe.online)
    => (calls.local >= 1 /\ calls.reduced >= 1 /\ calls.external = 0)

\* C2: in every successful search response, online_mode = true implies that the
\* local and reduced lists are empty and neither store was queried,
\* online_mode = false implies that the external list is empty, and total is
\* the sum of the three list lengths.
C2_BinarySwitch ==
    (SearchDone /\ resp.status = 200)
    => /\ resp.online_mode =>
            /\ resp.local = <<>> /\ resp.reduced = <<>>
            /\ calls.local = 0 /\ calls.reduced = 0
       /\ ~resp.online_mode => (resp.external = <<>> /\ calls.external = 0)
       /\ resp.total = Len(resp.local) + Len(resp.external) + Len(resp.reduced)

C2_Witness ==
    /\ SearchDone /\ req.fn = "api_search" /\ resp.status = 200
    /\ resp.online_mode /\ resp.external # <<>> /\ req.local = <<>>

\* C3: the probe returns true only if the endpoint at which probing stopped
\* answered with HTTP status 200.
C3_TrueOnlyOn200 ==
    (ProbeRan /\ probe.online) => probe.outcomes[Last(probe.tried)] = "ok200"

\* C4: the probe tries httpbin.org, google.com, 1.1.1.1 in that order, tries the
\* next endpoint whenever an earlier one raised or answered non-200, returns
\* false only if all three failed, and the first success ends it with true.
C4_FallbackChain ==
    ProbeRan =>
        /\ \A i \in 1..Len(probe.tried) : probe.tried[i] = i
        /\ \A i \in 1..Len(probe.tried) :
              (i < Len(Endpoints) /\ probe.outcomes[i] # "ok200")
                  => Len(probe.tried) > i
        /\ ~probe.online =>
              /\ Len(probe.tried) = Len(Endpoints)
              /\ \A i \in 1..Len(Endpoints) : probe.outcomes[i] # "ok200"
        /\ probe.outcomes[Last(probe.tried)] = "ok200" => probe.online

\* The records a search presents, in concatenation order.
Presented(r) == r.local \o r.external \o r.reduced

\* The key of a record: its title lowercased and trimmed (the sampled titles
\* are lowercase and carry no surrounding whitespace).
TitleKey(record) == record

\* C18: the result presented for one search holds at most one record per
\* key (the lowercased, trimmed title), and the reported total counts each
\* key once.
C18_CrossSourceMerge ==
    (SearchDone /\ resp.status = 200) =>
        LET all == Presented(resp)
        IN  /\ \A i, j \in DOMAIN all : i # j => TitleKey(all[i]) # TitleKey(all[j])
            /\ resp.total = Cardinality({TitleKey(all[i]) : i \in DOMAIN all})

\* Every role lookup of the request failed.
LookupsFail == \A p \in DOMAIN req.roles2 : req.roles2[p] = "exc"

\* C20: when every per-person role lookup of a request fails, the roles the
\* search uses are those of the keyword heuristic, not empty role lists.
C20_RoleFallbackToKeywords ==
    (SearchDone /\ req.fn = "semantic_search" /\ resp.status = 200
        /\ req.query.ner.persons # <<>> /\ LookupsFail)
    => LET roles == detect_roles_by_keywords(req.query.kws, req.query.ner.persons)
       IN  /\ resp.actor = First(roles.actor)
           /\ resp.director = First(roles.director)

\* The intent search_auto derived to choose the handler.
RoutingIntent == detect_intent(req.query.kws, req.query.ner, req.roles1, TRUE)

NoFlag(intent_data) == \A k \in DOMAIN intent_data.intents : ~intent_data.intents[k]

CouldNotUnderstand ==
    /\ resp.status = 400
    /\ resp.error = "No se pudo entender la intencion de la consulta"
    /\ "debug" \in DOMAIN resp

\* C22 as stated: every non-empty search_auto query for which no intent flag
\* fires is answered by the could-not-understand error carrying the extracted
\* entities, and no store is queried.
C22_NoIntentIsSurfaced ==
    (SearchDone /\ req.query.text # "" /\ NoFlag(RoutingIntent))
    => (CouldNotUnderstand /\ calls = NoCalls)

\* C22 amended: every non-empty search_auto query for which no intent flag
\* fires is handed to the classic title search (api_search), which queries
\* the stores of the current connectivity mode; the caller receives no
\* could-not-understand error.
C22_NoIntentIsTitleSearch ==
    (SearchDone /\ req.query.text # "" /\ NoFlag(RoutingIntent))
    => (req.fn = "api_search" /\ calls # NoCalls /\ ~CouldNotUnderstand)

\* A text without keyword or entity, searched offline: both offline stores
\* are queried and the response is the title search's.
C22_Witness ==
    /\ SearchDone /\ req.query.text # "" /\ NoFlag(RoutingIntent)
    /\ req.fn = "api_search" /\ resp.status = 200
    /\ calls.local = 1 /\ calls.reduced = 1
    /\ resp.local # <<>>

\* C23: one search_auto request derives the intent once: the intent that
\* chose the semantic branch is the intent whose flags are reported and whose
\* roles are queried, and the request never ends in the no-intent error.
C23_IntentDerivedOnce ==
    (SearchDone /\ req.fn = "semantic_search")
    => /\ ~CouldNotUnderstand
       /\ resp.status = 200 =>
             /\ resp.intents_detected = RoutingIntent.intents
             /\ resp.actor = First(RoutingIntent.roles.actor)
             /\ resp.director = First(RoutingIntent.roles.director)

----------------------------------------------------------------------------
(* Claims about remote queries and the lookup fan-out (SpecRun)             *)

\* Thread t has returned from op.
Returned(t, op) == run[t].phase = "idle" /\ run[t].ret.op = op

\* C5: in the fan-out of _run_sparql, under every interleaving of the workers,
\* the lookup result used to build record i is the lookup for the title of row
\* i, whatever the completion order, and at most 5 lookups are in flight.
C5_PositionalFanout ==
    \A t \in RunThreads :
       /\ Cardinality(Running(run[t].task)) <= MaxWorkers
       /\ (Returned(t, "_run_sparql") /\ run[t].ret.value # <<>>) =>
             /\ Len(run[t].ret.value) = Len(rows)
             /\ \A i \in DOMAIN run[t].ret.value :
                   /\ rows[i] # None => run[t].ret.value[i].titulo_dbp = rows[i]
                   /\ run[t].ret.value[i].tmdb.found
                         => run[t].ret.value[i].tmdb.query = rows[i]

TransportFailure(h) ==
    \/ h.kind \in Failures
    \/ /\ h.kind = "response"
       /\ \/ h.status # 200
          \/ h.content_type # "application/sparql-results+json"
          \/ h.body = "malformed"

\* C6: for search_movies, search_movies_semantic and _run_sparql a timeout, a
\* connection error, malformed JSON, a non-200 response or a response that is
\* not SPARQL-results-JSON yields an empty list and no exception for the caller.
C6_TransportFailureYieldsEmpty ==
    \A t \in RunThreads :
       (run[t].phase = "idle" /\ run[t].ret.op # "none" /\ TransportFailure(run[t].http))
       => (run[t].ret.value = <<>> /\ ~run[t].ret.raised)

\* C17: when the remote query answers with k binding rows, the normalizer
\* of search_movies and of _run_sparql returns k records, also when some row
\* has no title binding; the broken row does not empty the batch.
C17_MalformedRowKeepsBatch ==
    \A t \in RunThreads :
       (run[t].phase = "idle" /\ run[t].ret.op # "none" /\ run[t].http # NoHttp
           /\ ~TransportFailure(run[t].http))
       => (Len(run[t].ret.value) = Len(rows) /\ ~run[t].ret.raised)

\* The lookups in flight: the tasks of every thread's fan-out that are between
\* the cache check and the cache write.
Fetching == {<<t, i>> \in RunThreads \X (1..MaxRows) :
                i \in DOMAIN run[t].task /\ run[t].task[i].st = "fetching"}

\* C25: the unlocked caches are free of races: no two workers are between
\* the cache check and the cache write of the same (title, language) key at
\* once, so a key triggers at most one lookup and an entry is written once.
C25_NoConcurrentCheckThenWrite ==
    \A a, b \in Fetching :
        a # b => CacheKey(rows[a[2]], Language) # CacheKey(rows[b[2]], Language)

\* The step is a call of _run_sparql by thread t.
RunSparqlCalled(t) ==
    /\ run[t].phase = "idle"
    /\ ncalls' = ncalls + 1
    /\ \A u \in RunThreads \ {t} : run'[u] = run[u]
    /\ (run'[t].phase = "requesting" \/ run'[t].ret.op = "_run_sparql")

\* The step ends a _run_sparql call of thread t.
RunSparqlEnds(t) ==
    /\ run[t].phase \in {"requesting", "fanout", "unwinding"}
    /\ run'[t].phase = "idle"

\* The remote call answered SPARQL-results-JSON that parsed.
RemoteSucceeded(h) ==
    /\ h.kind = "response"
    /\ h.content_type = "application/sparql-results+json"
    /\ h.body = "bindings"

\* The step ends a _run_sparql call of thread t in its except branch or on
\* the non-JSON return.
RunFailed(t) ==
    run[t].phase = "unwinding" \/ ~RemoteSucceeded(run'[t].http)

\* C30: the query-result cache of _run_sparql is written only by a call whose
\* remote request succeeded; a call that fails (exception or non-SPARQL-JSON
\* response) leaves the cache as it is, and a call that finds no entry
\* contacts the endpoint; once the key is stored, every later identical query
\* returns the stored result without contacting the endpoint or the external
\* lookup.
C30_QueryCacheOnlyAfterSuccess ==
    [][/\ (dbpedia_cache' # dbpedia_cache)
           => \E t \in RunThreads :
                 /\ RunSparqlEnds(t)
                 /\ RemoteSucceeded(run'[t].http)
                 /\ run'[t].ret.op = "_run_sparql" /\ ~run'[t].ret.raised
                 /\ dbpedia_cache' =
                       (_generate_cache_key(TheQuery) :> run'[t].ret.value)
                           @@ dbpedia_cache
       /\ \A t \in RunThreads :
             /\ (RunSparqlEnds(t) /\ RunFailed(t))
                => dbpedia_cache' = dbpedia_cache
             /\ (RunSparqlCalled(t)
                    /\ _generate_cache_key(TheQuery) \notin DOMAIN dbpedia_cache)
                => run'[t].phase = "requesting"
             /\ (RunSparqlCalled(t)
                    /\ _generate_cache_key(TheQuery) \in DOMAIN dbpedia_cache)
                => /\ run'[t].ret =
                         [value |-> dbpedia_cache[_generate_cache_key(TheQuery)],
                          raised |-> FALSE, op |-> "_run_sparql"]
                   /\ run'[t].http = NoHttp
                   /\ run'[t].phase = "idle" /\ run'[t].task = NoTasks
                   /\ UNCHANGED <<dbpedia_cache, tmdb_cache>>]_vars

\* A second identical query is answered from the cache: records with their
\* lookups, no request sent.
C30_Witness ==
    \E t \in RunThreads :
       /\ ncalls = 2 /\ Returned(t, "_run_sparql")
       /\ run[t].http = NoHttp
       /\ Len(rows) >= 2
       /\ _generate_cache_key(TheQuery) \in DOMAIN dbpedia_cache
       /\ run[t].ret.value = dbpedia_cache[_generate_cache_key(TheQuery)]
       /\ Len(run[t].ret.value) = Len(rows)
       /\ \E i \in DOMAIN run[t].ret.value : run[t].ret.value[i].tmdb.found

----------------------------------------------------------------------------
(* Claims about ontology loading (SpecLoad)                                 *)

AttemptOrder == <<"xml", "turtle", "n3", "nt", "auto">>

\* C7: ontology loading tries xml, turtle, n3, nt in that order and stops at
\* the first that parses; auto-detection is tried only after all four failed;
\* if that fails too the service is constructed without raising, its graph is
\* empty and search_movies on it returns an empty list.
C7_FailedLoadLeavesEmptyStore ==
    onto.constructed =>
        /\ onto.tried = SubSeq(AttemptOrder, 1, Len(onto.tried))
        /\ onto.loaded_by # "none" => onto.loaded_by = Last(onto.tried)
        /\ ~onto.raised
        /\ onto.loaded_by = "none" =>
              /\ onto.tried = AttemptOrder
              /\ onto.populated = 0 =>
                    /\ onto.graph = {}
                    /\ found.asked => found.movies = {}

----------------------------------------------------------------------------
(* Claims about bulk loading (SpecBulk)                                     *)

\* C8: across any sequence of bulk-load calls of one process, an identifier
\* returned by several calls is ingested and counted at most once, and every
\* identifier in the processed set has its Film triple in the current graph.
C8_ProcessedIdsAreInGraph ==
    (store.constructed /\ \A t \in BulkThreads : Free(t)) =>
        /\ \A m \in Movies : store.ingested[m] <= 1
        /\ store.has_processed => store.processed \subseteq store.graph

\* The start-up ran _download_movie_data and no call has been made since.
StartedByDownload ==
    /\ store.constructed
    /\ store.nops = 0
    /\ store.asked.n > 0

\* Thread t has returned from op.
HasReturned(t, op) == job[t].pc = "done" /\ job[t].op = op

AllUnreachable(asked) == asked.failed = asked.n

\* C26: after a force_update during which both endpoints answered without
\* error, the graph holds a Film entry for every movie they returned,
\* whatever ran earlier in the process.
C26_ForceUpdateHoldsWhatWasReturned ==
    \A t \in BulkThreads :
        (HasReturned(t, "force_update") /\ job[t].asked.failed = 0
            /\ \A u \in BulkThreads \ {t} : job[u].pc = "idle")
        => job[t].asked.films \subseteq store.graph

\* C27: a refresh (stale-data refresh at start-up, or force_update) of a
\* non-empty graph during which every endpoint is unreachable leaves the
\* cached movies in the graph and in the saved data file.
C27_FailedRefreshKeepsCache ==
    /\ (StartedByDownload /\ AllUnreachable(store.asked) /\ store.before # {})
       => /\ store.before \subseteq store.graph
          /\ store.disk.exists /\ store.before \subseteq store.disk.films
    /\ \A t \in BulkThreads :
          (HasReturned(t, "force_update") /\ AllUnreachable(job[t].asked)
              /\ job[t].before # {}
              /\ \A u \in BulkThreads \ {t} : job[u].pc = "idle")
          => /\ job[t].before \subseteq store.graph
             /\ store.disk.exists /\ job[t].before \subseteq store.disk.films

\* C28: last_update advances only after a download that ingested a movie:
\* after a download that failed on every endpoint the next start-up still
\* finds that the data needs an update.
C28_FailedDownloadStaysStale ==
    /\ (StartedByDownload /\ AllUnreachable(store.asked)) => _needs_update(store.disk)
    /\ \A t \in BulkThreads :
          (HasReturned(t, "force_update") /\ AllUnreachable(job[t].asked)
              /\ \A u \in BulkThreads \ {t} : job[u].pc = "idle")
          => _needs_update(store.disk)

\* The numbers the expand route can pass.
RoutePasses(n) == n >= 100 /\ n <= 5000

\* A step in which thread t returns from expand_database.
ExpandReturns(t) ==
    job[t].op = "expand_database" /\ job[t].pc # "done" /\ job'[t].pc = "done"

\* C29: for every n the expand route can pass, expand_database(n) returns
\* exactly the movie count after the call minus the movie count before it,
\* and the value is never negative and never exceeds n.
C29_ExpandReturnsGrowth ==
    [][\A t \in BulkThreads :
          (ExpandReturns(t) /\ RoutePasses(job[t].n))
          => /\ job'[t].added = get_movie_count(store') - job[t].current
             /\ job'[t].added >= 0
             /\ job'[t].added <= job[t].n]_vars

----------------------------------------------------------------------------
(* Claims about the query builders (SpecBuilder)                            *)

\* The variables through which each filter constrains ?film / ?movie.
OwnVars(f) ==
    CASE f = "actor"    -> {"?actor", "?pActor"}
      [] f = "director" -> {"?dir", "?pDirector", "?directorName"}
      [] f = "year"     -> {"?rd", "?releaseDate"}
      [] f = "genre"    -> {"?genreURI", "?genero", "?genreName"}
      [] f = "studio"   -> {"?studio", "?pStudio"}

ClausesOf(f) == {i \in DOMAIN built.filters : built.filters[i].vars \cap OwnVars(f) # {}}

Populated == {f \in FilterNames : built.args[f] # PyNone /\ built.args[f] # ""}

\* C9: in the DBpedia-online builder, for each language of es, en, fr, de, a
\* filter set with exactly one filter populated yields a filter block holding
\* that filter's clauses and no clause of another filter; a filter that is
\* None or empty contributes no clause.
C9_ExactlyTheFilterClauses ==
    (built.store = "online" /\ built.language \in {"es", "en", "fr", "de"}) =>
        /\ \A f \in FilterNames \ Populated : ClausesOf(f) = {}
        /\ \A f \in FilterNames :
              Populated = {f} =>
                 /\ ClausesOf(f) = DOMAIN built.filters
                 /\ built.filters # <<>>
                 /\ built.filters =
                       (CASE f = "actor" -> ActorClauses(built.args[f], built.language)
                          [] f = "director" -> DirectorClauses(built.args[f], built.language)
                          [] f = "year" -> YearClauses(built.args[f])
                          [] f = "genre" -> GenreClauses(built.args[f], built.language)
                          [] f = "studio" -> StudioClauses(built.args[f], built.language))

C9_Witness ==
    /\ built.store = "online" /\ built.language = "de"
    /\ Populated = {"genre"} /\ built.args.actor = "" /\ built.args.studio = PyNone
    /\ Len(built.filters) = 4

\* C10: for DBpedia online and for the reduced store, each present filter that
\* semantic_search passes contributes at least one clause to the query that
\* is executed, so a query with a populated filter is never a browse-all.
C10_PresentFilterContributes ==
    (built.store # "none" /\ built.executed) =>
        /\ \A f \in Populated : ClausesOf(f) # {}
        /\ Populated # {} => built.filters # <<>>

LabelVar(f) == IF f = "actor" THEN "?actor" ELSE "?dir"

LabelClauses(f) == {i \in DOMAIN built.filters : built.filters[i].vars = {LabelVar(f)}}

\* C11: for a non-English language L of es, fr, de, the actor filter and the
\* director filter of search_movies_semantic match a person whose label equals
\* the filter value tagged L or tagged English: one of the two tags suffices.
C11_LabelInLanguageOrEnglish ==
    (built.store = "online" /\ built.language \in {"es", "fr", "de"}) =>
        \A f \in {"actor", "director"} :
            f \in Populated =>
                \A labels \in PersonLabels(built.args[f]) :
                    (\E i \in LabelClauses(f), l \in labels :
                        LabelMatches(built.filters[i], l))
                    <=> (\E l \in labels : l.tag \in {built.language, "en"})

\* C14: for every language of es, en, fr, de (and for the dbo:genre fallback
\* of an unrecognized language) and every filter set, every namespace prefix
\* the query of search_movies_semantic uses is declared in its PREFIX block.
C14_EveryUsedPrefixIsDeclared ==
    built.store = "online" => UsedPrefixes(built.filters) \subseteq DeclaredPrefixes

----------------------------------------------------------------------------
(* Claims about the text functions (SpecText)                               *)

\* C12: in every store's semantic query the year filter is a string-prefix
\* match: a film passes for the value Y if and only if the string form of its
\* release date begins with Y.
C12_YearFilterIsPrefixMatch ==
    eval.fn = "year_filter" => (eval.passes <=> IsPrefix(eval.year, eval.date))

\* Position of the quote that ends a SPARQL string literal scanned from
\* position i: a backslash escapes the character after it; 0 if none ends it.
RECURSIVE LiteralEnd(_, _)
LiteralEnd(s, i) ==
    IF i > Len(s) THEN 0
    ELSE IF s[i] = BS THEN LiteralEnd(s, i + 2)
    ELSE IF s[i] = DQ THEN i
    ELSE LiteralEnd(s, i + 1)

\* C13: for every value over an alphabet with the double quote and the
\* backslash, the literal each builder emits ends exactly at the quote the
\* template placed after the value: no quote closes it early.
C13_LiteralEndsAtTemplateQuote ==
    (eval.fn = "literal" /\ eval.emits) => LiteralEnd(eval.emitted, 1) = Len(eval.emitted)

\* C15: year extraction is the same function in every normalizer: a date
\* with a '-' yields its leading year component, a string with neither 'T'
\* nor '-' and at least 4 characters yields its first 4 characters, an empty
\* or missing date yields the placeholder, and no input raises.
C15_YearExtractionIsUniform ==
    eval.fn = "year" =>
        /\ ~eval.raised
        /\ eval.date = <<>> => eval.year = NoDisponible
        /\ Has("-", eval.date) => eval.year = SplitDash0(eval.date)
        /\ (~Has("-", eval.date) /\ ~Has("T", eval.date) /\ Len(eval.date) >= 4)
              => eval.year = SubSeq(eval.date, 1, 4)

\* C16: a numeric runtime n >= 0 is shown as (n div 60) min when n > 1000
\* and as n min otherwise; a runtime that is no number is shown as the
\* placeholder, and no input raises.
C16_DurationNormalization ==
    eval.fn = "duration" =>
        /\ ~eval.raised
        /\ eval.runtime.kind = "number" =>
              eval.duration =
                 [shown |-> "min",
                  n |-> IF eval.runtime.n > 1000 THEN eval.runtime.n \div 60
                        ELSE eval.runtime.n]
        /\ eval.runtime.kind = "text" =>
              eval.duration = [shown |-> "No disponible", n |-> 0]

\* C19: the flag of each category among actor, director, genre, year and
\* studio is true exactly when the text holds one of the category's keywords
\* or the category's extracted list (the role list for actor and director)
\* is not empty; movie_by_person is true exactly when persons is not empty
\* and neither the actor flag nor the director flag is set.
C19_IntentFlags ==
    eval.fn = "detect_intent" =>
        LET intents == eval.out.intents
            Mentions(list) == eval.kws \cap list # {}
        IN  /\ intents.movie_by_actor
                  <=> (Mentions(ACTOR_KEYWORDS) \/ eval.out.roles.actor # <<>>)
            /\ intents.movie_by_director
                  <=> (Mentions(DIRECTOR_KEYWORDS) \/ eval.out.roles.director # <<>>)
            /\ intents.movie_by_genre
                  <=> (Mentions(GENRE_KEYWORDS) \/ eval.ner.genres # <<>>)
            /\ intents.movie_by_year
                  <=> (Mentions(YEAR_KEYWORDS) \/ eval.ner.years # <<>>)
            /\ intents.movie_by_studio
                  <=> (Mentions(STUDIO_KEYWORDS) \/ eval.ner.orgs # <<>>)
            /\ intents.movie_by_person
                  <=> (eval.ner.persons # <<>>
                          /\ ~intents.movie_by_actor /\ ~intents.movie_by_director)

\* A text with the actor keyword and a person whose lookup found no role:
\* the actor flag is set by the keyword alone and movie_by_person is not set.
C19_Witness ==
    /\ eval.fn = "detect_intent"
    /\ eval.kws = {"actor"}
    /\ eval.ner.persons # <<>>
    /\ eval.out.roles.actor = <<>>
    /\ eval.out.intents.movie_by_actor
    /\ ~eval.out.intents.movie_by_person
    /\ ~eval.out.intents.movie_by_genre

\* C21: the keyword heuristic assigns every person the actor role when the
\* text holds only actor keywords and the director role when it holds only
\* director keywords; with both, the persons at even (0-based) index are
\* actors and those at odd index directors; the two lists never share a
\* position of the input and hold no one outside it.
C21_KeywordRoleHeuristic ==
    eval.fn = "roles" =>
        LET persons == eval.persons
            actor == eval.roles.actor
            director == eval.roles.director
            has_actor == eval.kws \cap ACTOR_KEYWORDS # {}
            has_director == eval.kws \cap DIRECTOR_KEYWORDS # {}
        IN  /\ (has_actor /\ ~has_director) => (actor = persons /\ director = <<>>)
            /\ (has_director /\ ~has_actor) => (director = persons /\ actor = <<>>)
            /\ (has_actor /\ has_director) =>
                  /\ Len(actor) + Len(director) = Len(persons)
                  /\ \A i \in DOMAIN actor : actor[i] = persons[2 * i - 1]
                  /\ \A i \in DOMAIN director : director[i] = persons[2 * i]
            /\ Len(actor) + Len(director) <= Len(persons)
            /\ \A i \in DOMAIN actor : \E j \in DOMAIN persons : actor[i] = persons[j]
            /\ \A i \in DOMAIN director : \E j \in DOMAIN persons : director[i] = persons[j]

\* Both kinds of keyword and three persons, the first and third the same
\* name: two actors and one director.
C21_Witness ==
    /\ eval.fn = "roles"
    /\ eval.kws = {"actor", "director"}
    /\ eval.persons = <<"P1", "P2", "P1">>
    /\ eval.roles = [actor |-> <<"P1", "P1">>, director |-> <<"P2">>]

----------------------------------------------------------------------------
(* Claims about the served request (SpecServe)                              *)

\* C24: every search request terminates with a response, given only that a
\* call carrying a timeout completes or times out.
C24_EveryRequestTerminates == (io.pc # "idle") ~> (io.pc = "done")

====
